---------------------------- MODULE Spec2Model ----------------------------
(***************************************************************************)
(* Model of the gesture pipeline of Framer-Bot:                            *)
(*   - GestureBuffer   (src/gesture_buffer.py)                             *)
(*   - AnimPlayer / AnimOverlay (src/animation.py)                         *)
(*   - the reader / processor / writer threads and process_video           *)
(*     (src/video_processor.py)                                            *)
(*   - GestureDetector (src/gesture_detector.py)                           *)
(*   - WebpAnimation.load, the resize cache and the blend of overlay_bgra  *)
(*     (src/animation.py)                                                  *)
(* Each component has its own specification (SpecBuf, SpecPipe, FairPipe,  *)
(* SpecPlayer, SpecOverlay, SpecDet, SpecJobs, SpecProc, SpecLoad,         *)
(* SpecBlend, SpecClip for the clipping of overlay_bgra, and SpecAdvance,  *)
(* FairAdvance for the loop of AnimPlayer._advance pass by pass); the      *)
(* variables of the other components keep their initial values there.      *)
(* SpecSwitch and SpecLoss are the processor loop of SpecProc on a job     *)
(* where the user switches between two gestures and on one where the hand  *)
(* leaves the picture; SpecLog is GestureBuffer.push on any arguments,     *)
(* with the sequence of pushed labels kept.                                *)
(***************************************************************************)
EXTENDS Integers, Sequences, FiniteSets, TLC

VARIABLES
    buf,        \* the GestureBuffer object (its fields)
    call,       \* the last GestureBuffer.push call: its arguments and its result
    gap_start,  \* confirmed as it was after the last non-null push (start of the null gap)
    \* --- process_video and its three threads ---
    frames_in,  \* number of frames the input video holds (frames are numbered 1..frames_in)
    cap_pos,    \* number of frames cap.read() has returned so far
    cap_opened, \* cap.isOpened()
    r_pc,       \* position of _reader_thread: "read", "put", "stop", "done"
    r_frame,    \* _reader_thread's local frame: <<>> or <<f>>
    raw_q,      \* queue between reader and processor
    p_pc,       \* position of _processor_thread: "get", "put", "stop", "done"
    p_frame,    \* _processor_thread's local frame: <<>> or <<f>>
    out_q,      \* queue between processor and writer
    w_pc,       \* position of _writer_thread: "get", "flush", "done"
    batch,      \* _writer_thread's pending batch
    stream,     \* the frames written to the encoder's stdin, in order
    enc,        \* the encoder process: "running", "dead", "exited"
    m_pc,       \* position of process_video after the threads are started
    released,   \* cap.release() and detector.close() were called
    stdin_closed, \* proc.stdin.close() was called
    failed,     \* the stages that raised an exception or died so far
    forwarded,  \* the frames the processor put on out_q, in order
    stops,      \* number of end markers put on raw_q and on out_q
    \* --- one AnimPlayer under arbitrary calls ---
    anim,       \* the player's WebpAnimation: the durations of its frames (<<>>: load failed)
    player,     \* the AnimPlayer object (its fields)
    pcall,      \* the last call on the player: method, argument, player before, result
    fade_run,   \* number of update(False) calls since start_fade acted, -1 if that run is broken
    \* --- AnimOverlay ---
    anims,      \* label -> the WebpAnimation of that label's player
    players,    \* AnimOverlay._players: label -> AnimPlayer object
    curr,       \* (_curr_cx, _curr_cy): <<>> for (None, None), else <<cx, cy>>
    ocall,      \* the last update_and_draw call: its arguments and the labels it drew
    \* --- what process_video reports to its caller ---
    returncode, \* proc.returncode: <<>> while the encoder runs, else <<status>>
    outcome,    \* process_video as its caller sees it: "running", "returned" (None), "raised"
    \* --- GestureDetector ---
    detector,   \* the GestureDetector object (its fields)
    det,        \* the last process_frame call: its inputs, the angles it tried, its result
    \* --- jobs and the module-level resize cache ---
    heap,       \* memory: address -> the job whose clip frame lives there, 0 if the address is free
    resize_cache,\* _resize_cache._cache: (id(bgra), size) -> the resized image and who stored it
    jobs,       \* job -> its position, the address of its clip frame, its overlay size
    last_get,   \* the last _resize_cache.get: the calling job, the image returned, the job that stored it
    \* --- the loop of _processor_thread, frame by frame ---
    skip_counter,\* _processor_thread's local skip_counter
    last_raw_g, \* _processor_thread's local last_raw_g
    piter,      \* the last iteration: whether it classified, its calls of buf.push, the skipped frames before it, whether it put the frame
    quiet,      \* while no classification has returned a gesture: frames taken, classified, forwarded; -1 after
    \* --- WebpAnimation.load ---
    load,       \* one call of WebpAnimation.load: the file, where decoding fails, the position, anim.frames
    \* --- overlay_bgra on one pixel ---
    pixel,      \* one channel of a destination pixel that the overlay covers
    bcall,      \* the last overlay_bgra call on the pixel: the value before, the overlay pixel, alpha_mul
    \* --- AnimPlayer._advance, step by step ---
    adv,        \* one player in state PLAYING: its clip's durations, _idx, _ms_accum and the position in update/_advance
    \* --- overlay_bgra: the clipping of the overlay to the frame ---
    ov,         \* the last overlay_bgra call: its center and size, the slices it took, the pixels it wrote
    shown,      \* what the classifier can report for a frame of the job
    lost,       \* the frames processed since the user took the hand away (0: the hand may be shown)
    \* --- GestureBuffer.push on any arguments ---
    pushed      \* the raw labels of the pushes made so far, oldest first (kept for the claims on the window)

bufVars == <<buf, call, gap_start, pushed>>

pipeVars == <<frames_in, cap_pos, cap_opened, r_pc, r_frame, raw_q, p_pc, p_frame,
              out_q, w_pc, batch, stream, enc, m_pc, released, stdin_closed,
              failed, forwarded, stops>>

playerVars == <<anim, player, pcall, fade_run>>

overlayVars == <<anims, players, curr, ocall>>

jobVars == <<returncode, outcome>>

detVars == <<detector, det>>

cacheVars == <<heap, resize_cache, jobs, last_get>>

procVars == <<skip_counter, last_raw_g, piter, quiet, shown, lost>>

loadVars == <<load>>

blendVars == <<pixel, bcall>>

advVars == <<adv>>

clipVars == <<ov>>

restVars == <<detVars, cacheVars, procVars, loadVars, blendVars, advVars, clipVars>>

vars == <<bufVars, pipeVars, jobVars, playerVars, overlayVars, restVars>>

----------------------------------------------------------------------------
(* Values *)

\* Python's None (for labels and for the confirmed gesture)
None == "None"

\* gesture labels the classifier can report (two are enough to have ties)
Labels == {"like", "dislike"}

\* a position argument of push: <<>> is (nx, ny) = (None, None),
\* otherwise <<nx, ny>> in quarters of the frame (2 = 0.5)
NoPos == <<>>

Positions == {<<1, 3>>}

----------------------------------------------------------------------------
(* config.py *)

GESTURE_CONFIRM_FRAMES == 10

GESTURE_CLEAR_FRAMES == 6

\* GESTURE_CONFIRM_RATIO = 0.6, as numerator / denominator
GESTURE_CONFIRM_RATIO == <<6, 10>>

----------------------------------------------------------------------------
(* Bounds *)

\* null pushes are not generated once the no-detection streak reaches this
MaxStreak == 12

\* the input video holds at most this many frames
MaxFrames == 9

\* FRAME_QUEUE_SIZE of config.py (128), scaled down
FRAME_QUEUE_SIZE == 2

\* the literal 128 of max(FRAME_QUEUE_SIZE, 128) in process_video, scaled down
QueueFloor == 2


----------------------------------------------------------------------------
(* GestureBuffer *)

\* number of occurrences of g in the window w
Count(w, g) == Cardinality({i \in 1..Len(w) : w[i] = g})

\* position of the first occurrence of g in w (dict insertion order of counts)
FirstIdx(w, g) == CHOOSE i \in 1..Len(w) : w[i] = g /\ \A j \in 1..(i - 1) : w[j] # g

\* a mutant of BestOf: the label of minimal count is taken
BestOf_Least(w) ==
    LET keys == {w[i] : i \in 1..Len(w)} \ {None}
    IN  CHOOSE g \in keys :
            \A h \in keys :
                \/ Count(w, g) < Count(w, h)
                \/ Count(w, g) = Count(w, h) /\ FirstIdx(w, g) <= FirstIdx(w, h)

\* max(counts, key=counts.__getitem__): the first key, in insertion order,
\* among those of maximal count
BestOf(w) ==
    LET keys == {w[i] : i \in 1..Len(w)} \ {None}
    IN  CHOOSE g \in keys :
            \A h \in keys :
                \/ Count(w, g) > Count(w, h)
                \/ Count(w, g) = Count(w, h) /\ FirstIdx(w, g) <= FirstIdx(w, h)

\* a mutant of WindowFull: the length test of _get_confirmed dropped
WindowFull_Always(w) == TRUE

\* len(self._buf) < GESTURE_CONFIRM_FRAMES is false
WindowFull(w) == Len(w) >= GESTURE_CONFIRM_FRAMES

\* a mutant of RatioReached: a strict comparison
RatioReached_Strict(c, n) ==
    c * GESTURE_CONFIRM_RATIO[2] > GESTURE_CONFIRM_RATIO[1] * n

\* a mutant of RatioReached: half of the window is enough
RatioReached_Half(c, n) == c * 2 >= n

\* counts[best] / len(self._buf) >= GESTURE_CONFIRM_RATIO
RatioReached(c, n) ==
    c * GESTURE_CONFIRM_RATIO[2] >= GESTURE_CONFIRM_RATIO[1] * n

\* GestureBuffer._get_confirmed
GetConfirmed(w) ==
    IF ~WindowFull(w) THEN None
    ELSE IF \A i \in 1..Len(w) : w[i] = None THEN None
    ELSE LET best == BestOf(w)
         IN  IF RatioReached(Count(w, best), Len(w)) THEN best ELSE None

\* a mutant of DequeAppend: a full window drops the new label, not the oldest
DequeAppend_KeepOldest(w, g) ==
    IF Len(w) >= GESTURE_CONFIRM_FRAMES THEN w ELSE Append(w, g)

\* deque(maxlen=GESTURE_CONFIRM_FRAMES).append
DequeAppend(w, g) ==
    IF Len(w) >= GESTURE_CONFIRM_FRAMES THEN Append(Tail(w), g) ELSE Append(w, g)

\* a mutant of ShouldClear: the streak has to exceed GESTURE_CLEAR_FRAMES
ShouldClear_Late(streak) == streak > GESTURE_CLEAR_FRAMES

\* a mutant of ShouldClear: cleared one frame early
ShouldClear_Early(streak) == streak >= GESTURE_CLEAR_FRAMES - 1

\* self._no_hand_streak >= GESTURE_CLEAR_FRAMES
ShouldClear(streak) == streak >= GESTURE_CLEAR_FRAMES

\* GestureBuffer.__init__
NewGestureBuffer ==
    [buf            |-> <<>>,
     no_hand_streak |-> 0,
     confirmed      |-> None,
     skip_rotation  |-> FALSE,
     last_nx        |-> 2,
     last_ny        |-> 2]

\* a mutant of SetsPosition: every supplied position is stored
SetsPosition_Always(raw_gesture, pos) == pos # NoPos

\* push stores (nx, ny): the else branch of raw_gesture is None, and there
\* nx is not None
SetsPosition(raw_gesture, pos) == raw_gesture # None /\ pos # NoPos

\* GestureBuffer.push: the object after push(raw_gesture, nx, ny), pos = <<nx, ny>> or NoPos
PushBuf(b, raw_gesture, pos) ==
    LET streak == IF raw_gesture = None THEN b.no_hand_streak + 1 ELSE 0
        setPos == SetsPosition(raw_gesture, pos)
        w      == DequeAppend(b.buf, raw_gesture)
        new_confirmed == GetConfirmed(w)
    IN  [buf            |-> w,
         no_hand_streak |-> streak,
         confirmed      |-> IF new_confirmed # None THEN new_confirmed
                            ELSE IF ShouldClear(streak) THEN None
                            ELSE b.confirmed,
         skip_rotation  |-> IF new_confirmed # None THEN TRUE
                            ELSE IF ShouldClear(streak) THEN FALSE
                            ELSE b.skip_rotation,
         last_nx        |-> IF setPos THEN pos[1] ELSE b.last_nx,
         last_ny        |-> IF setPos THEN pos[2] ELSE b.last_ny]

\* the state before any update_and_draw call
NoOverlayCall ==
    [op |-> "init", confirmed |-> None, raw |-> None, pos |-> NoPos, drawn |-> {}]

\* the state before any call
NoCall == [op |-> "init", raw |-> None, pos |-> NoPos, ret |-> None]

\* one call of push with a gesture label, as _processor_thread makes it:
\* process_frame returns a label together with its position
PushLabel ==
    \E g \in Labels, pos \in Positions :
        /\ buf' = PushBuf(buf, g, pos)
        /\ call' = [op |-> "push", raw |-> g, pos |-> pos,
                    ret |-> buf'.confirmed]
        /\ gap_start' = buf'.confirmed
        /\ UNCHANGED pushed
        /\ UNCHANGED <<pipeVars, playerVars, overlayVars, jobVars, restVars>>

\* one call of push(None, None, None)
PushNone ==
    /\ buf.no_hand_streak < MaxStreak
    /\ buf' = PushBuf(buf, None, NoPos)
    /\ call' = [op |-> "push", raw |-> None, pos |-> NoPos,
                ret |-> buf'.confirmed]
    /\ UNCHANGED <<gap_start, pushed>>
    /\ UNCHANGED <<pipeVars, playerVars, overlayVars, jobVars, restVars>>

NextBuf ==
    \/ PushLabel
    \/ PushNone

\* the positions a caller of push may supply, next to none
LogPositions == {<<1, 3>>, <<3, 1>>}

\* the calls of push are followed up to this number
MaxPushes == 11

\* one call of push on any arguments: a label or None, with or without a
\* position
PushLogged ==
    \E g \in shown, pos \in LogPositions \cup {NoPos} :
        /\ Len(pushed) < MaxPushes
        /\ buf' = PushBuf(buf, g, pos)
        /\ call' = [op |-> "push", raw |-> g, pos |-> pos,
                    ret |-> buf'.confirmed]
        /\ gap_start' = IF g # None THEN buf'.confirmed ELSE gap_start
        /\ pushed' = Append(pushed, g)
        /\ UNCHANGED <<pipeVars, playerVars, overlayVars, jobVars, restVars>>

NextLog == PushLogged

----------------------------------------------------------------------------
(* video_processor.py: the pipeline *)

\* _STOP, the end marker (frames are 1, 2, ...)
STOP == 0

\* the exit statuses of the encoder process: 0 is success
ExitStatuses == {0, 1}

\* WRITE_BATCH of _writer_thread
WRITE_BATCH == 4

\* queue.Queue(maxsize=max(FRAME_QUEUE_SIZE, 128))
Maxsize == IF FRAME_QUEUE_SIZE > QueueFloor THEN FRAME_QUEUE_SIZE ELSE QueueFloor

\* a mutant of CanPut: put never blocks
CanPut_Unbounded(q) == TRUE

\* queue.Queue.put does not block: the queue holds fewer than maxsize items
CanPut(q) == Len(q) < Maxsize

\* a mutant of QueueGet: the item taken stays in the queue
QueueGet_Peek(q) == [item |-> Head(q), rest |-> q]

\* a mutant of QueueGet: the newest item is taken
QueueGet_Lifo(q) == [item |-> q[Len(q)], rest |-> SubSeq(q, 1, Len(q) - 1)]

\* queue.Queue.get on a non-empty queue: the oldest item, and the queue without it
QueueGet(q) == [item |-> Head(q), rest |-> Tail(q)]

(* _reader_thread *)

\* cap.isOpened() and cap.read() returns (True, frame)
ReaderRead ==
    /\ r_pc = "read"
    /\ cap_opened
    /\ cap_pos < frames_in
    /\ cap_pos' = cap_pos + 1
    /\ r_frame' = <<cap_pos + 1>>
    /\ r_pc' = "put"
    /\ UNCHANGED <<bufVars, playerVars, overlayVars, jobVars, restVars>>
    /\ UNCHANGED <<frames_in, cap_opened, raw_q, p_pc, p_frame, out_q, w_pc, batch,
                   stream, enc, m_pc, released, stdin_closed, failed, forwarded, stops>>

\* the loop ends: cap is not opened, or cap.read() returns ret = False
\* (the input is exhausted, or a frame could not be decoded)
ReaderEnd ==
    /\ r_pc = "read"
    /\ r_pc' = "stop"
    /\ UNCHANGED <<bufVars, playerVars, overlayVars, jobVars, restVars>>
    /\ UNCHANGED <<frames_in, cap_pos, cap_opened, r_frame, raw_q, p_pc, p_frame, out_q,
                   w_pc, batch, stream, enc, m_pc, released, stdin_closed, failed,
                   forwarded, stops>>

\* cap.isOpened() or cap.read() raises: control goes to the finally clause
ReaderRaise ==
    /\ r_pc = "read"
    /\ r_pc' = "stop"
    /\ failed' = failed \cup {"reader"}
    /\ UNCHANGED <<bufVars, playerVars, overlayVars, jobVars, restVars>>
    /\ UNCHANGED <<frames_in, cap_pos, cap_opened, r_frame, raw_q, p_pc, p_frame, out_q,
                   w_pc, batch, stream, enc, m_pc, released, stdin_closed, forwarded,
                   stops>>

\* raw_q.put(frame)
ReaderPut ==
    /\ r_pc = "put"
    /\ CanPut(raw_q)
    /\ raw_q' = Append(raw_q, r_frame[1])
    /\ r_frame' = <<>>
    /\ r_pc' = "read"
    /\ UNCHANGED <<bufVars, playerVars, overlayVars, jobVars, restVars>>
    /\ UNCHANGED <<frames_in, cap_pos, cap_opened, p_pc, p_frame, out_q, w_pc, batch,
                   stream, enc, m_pc, released, stdin_closed, failed, forwarded, stops>>

\* finally: raw_q.put(_STOP)
ReaderStop ==
    /\ r_pc = "stop"
    /\ CanPut(raw_q)
    /\ raw_q' = Append(raw_q, STOP)
    /\ stops' = [stops EXCEPT !.raw = @ + 1]
    /\ r_pc' = "done"
    /\ UNCHANGED <<bufVars, playerVars, overlayVars, jobVars, restVars>>
    /\ UNCHANGED <<frames_in, cap_pos, cap_opened, r_frame, p_pc, p_frame, out_q, w_pc,
                   batch, stream, enc, m_pc, released, stdin_closed, failed, forwarded>>

(* _processor_thread *)

\* raw_q.get() returns a frame, which is classified, overlaid and watermarked in place
ProcFrame ==
    /\ p_pc = "get"
    /\ raw_q # <<>>
    /\ QueueGet(raw_q).item # STOP
    /\ raw_q' = QueueGet(raw_q).rest
    /\ p_frame' = <<QueueGet(raw_q).item>>
    /\ p_pc' = "put"
    /\ UNCHANGED <<bufVars, playerVars, overlayVars, jobVars, restVars>>
    /\ UNCHANGED <<frames_in, cap_pos, cap_opened, r_pc, r_frame, out_q, w_pc, batch,
                   stream, enc, m_pc, released, stdin_closed, failed, forwarded, stops>>

\* raw_q.get() returns a frame and its processing raises: control goes to finally
ProcRaise ==
    /\ p_pc = "get"
    /\ raw_q # <<>>
    /\ QueueGet(raw_q).item # STOP
    /\ raw_q' = QueueGet(raw_q).rest
    /\ p_pc' = "stop"
    /\ failed' = failed \cup {"processor"}
    /\ UNCHANGED <<bufVars, playerVars, overlayVars, jobVars, restVars>>
    /\ UNCHANGED <<frames_in, cap_pos, cap_opened, r_pc, r_frame, p_frame, out_q, w_pc,
                   batch, stream, enc, m_pc, released, stdin_closed, forwarded, stops>>

\* raw_q.get() returns _STOP: break
ProcBreak ==
    /\ p_pc = "get"
    /\ raw_q # <<>>
    /\ QueueGet(raw_q).item = STOP
    /\ raw_q' = QueueGet(raw_q).rest
    /\ p_pc' = "stop"
    /\ UNCHANGED <<bufVars, playerVars, overlayVars, jobVars, restVars>>
    /\ UNCHANGED <<frames_in, cap_pos, cap_opened, r_pc, r_frame, p_frame, out_q, w_pc,
                   batch, stream, enc, m_pc, released, stdin_closed, failed, forwarded,
                   stops>>

\* out_q.put(frame)
ProcPut ==
    /\ p_pc = "put"
    /\ CanPut(out_q)
    /\ out_q' = Append(out_q, p_frame[1])
    /\ forwarded' = Append(forwarded, p_frame[1])
    /\ p_frame' = <<>>
    /\ p_pc' = "get"
    /\ UNCHANGED <<bufVars, playerVars, overlayVars, jobVars, restVars>>
    /\ UNCHANGED <<frames_in, cap_pos, cap_opened, r_pc, r_frame, raw_q, w_pc, batch,
                   stream, enc, m_pc, released, stdin_closed, failed, stops>>

\* finally: out_q.put(_STOP)
ProcStop ==
    /\ p_pc = "stop"
    /\ CanPut(out_q)
    /\ out_q' = Append(out_q, STOP)
    /\ stops' = [stops EXCEPT !.out = @ + 1]
    /\ p_pc' = "done"
    /\ UNCHANGED <<bufVars, playerVars, overlayVars, jobVars, restVars>>
    /\ UNCHANGED <<frames_in, cap_pos, cap_opened, r_pc, r_frame, raw_q, p_frame, w_pc,
                   batch, stream, enc, m_pc, released, stdin_closed, failed, forwarded>>

(* _writer_thread *)

\* a mutant of BatchFull: the batch is written one frame late
BatchFull_Late(b) == Len(b) > WRITE_BATCH

\* len(batch) >= WRITE_BATCH
BatchFull(b) == Len(b) >= WRITE_BATCH

\* a mutant of FlushNeeded: the finally clause writes nothing
FlushNeeded_Never(b) == FALSE

\* finally: if batch
FlushNeeded(b) == b # <<>>

\* out_q.get() returns a frame: it joins the batch, which is written when full
WriterFrame ==
    /\ w_pc = "get"
    /\ out_q # <<>>
    /\ QueueGet(out_q).item # STOP
    /\ out_q' = QueueGet(out_q).rest
    /\ LET b == Append(batch, QueueGet(out_q).item)
       IN  IF ~BatchFull(b)
           THEN /\ batch' = b
                /\ UNCHANGED <<stream, w_pc, failed>>
           ELSE IF enc = "running"
           THEN \* stdin.write(b"".join(batch)); batch.clear()
                /\ stream' = stream \o b
                /\ batch' = <<>>
                /\ UNCHANGED <<w_pc, failed>>
           ELSE \* stdin.write raises (broken pipe): control goes to finally
                /\ batch' = b
                /\ w_pc' = "flush"
                /\ failed' = failed \cup {"writer"}
                /\ UNCHANGED stream
    /\ UNCHANGED <<bufVars, playerVars, overlayVars, jobVars, restVars>>
    /\ UNCHANGED <<frames_in, cap_pos, cap_opened, r_pc, r_frame, raw_q, p_pc, p_frame,
                   enc, m_pc, released, stdin_closed, forwarded, stops>>

\* out_q.get() returns _STOP: break
WriterBreak ==
    /\ w_pc = "get"
    /\ out_q # <<>>
    /\ QueueGet(out_q).item = STOP
    /\ out_q' = QueueGet(out_q).rest
    /\ w_pc' = "flush"
    /\ UNCHANGED <<bufVars, playerVars, overlayVars, jobVars, restVars>>
    /\ UNCHANGED <<frames_in, cap_pos, cap_opened, r_pc, r_frame, raw_q, p_pc, p_frame,
                   batch, stream, enc, m_pc, released, stdin_closed, failed, forwarded,
                   stops>>

\* finally: if batch: stdin.write(b"".join(batch)); the thread ends
WriterFlush ==
    /\ w_pc = "flush"
    /\ w_pc' = "done"
    /\ IF ~FlushNeeded(batch)
       THEN UNCHANGED <<stream, failed>>
       ELSE IF enc = "running"
       THEN /\ stream' = stream \o batch
            /\ UNCHANGED failed
       ELSE /\ failed' = failed \cup {"writer"}
            /\ UNCHANGED stream
    /\ UNCHANGED <<bufVars, playerVars, overlayVars, jobVars, restVars>>
    /\ UNCHANGED <<frames_in, cap_pos, cap_opened, r_pc, r_frame, raw_q, p_pc, p_frame,
                   out_q, batch, enc, m_pc, released, stdin_closed, forwarded, stops>>

(* process_video, from t_writer.join() on *)

\* a mutant of JoinReturns: join() does not wait for the thread
JoinReturns_AtOnce(pc) == TRUE

\* Thread.join() without a timeout returns when the thread has ended
JoinReturns(pc) == pc = "done"

\* t_writer.join() returns: the writer thread has ended
MainJoinWriter ==
    /\ m_pc = "join_writer"
    /\ JoinReturns(w_pc)
    /\ m_pc' = "join_reader"
    /\ UNCHANGED <<bufVars, playerVars, overlayVars, jobVars, restVars>>
    /\ UNCHANGED <<frames_in, cap_pos, cap_opened, r_pc, r_frame, raw_q, p_pc, p_frame,
                   out_q, w_pc, batch, stream, enc, released, stdin_closed, failed,
                   forwarded, stops>>

\* t_reader.join(timeout=10) returns because the reader thread has ended
MainJoinReader ==
    /\ m_pc = "join_reader"
    /\ r_pc = "done"
    /\ m_pc' = "join_processor"
    /\ UNCHANGED <<bufVars, playerVars, overlayVars, jobVars, restVars>>
    /\ UNCHANGED <<frames_in, cap_pos, cap_opened, r_pc, r_frame, raw_q, p_pc, p_frame,
                   out_q, w_pc, batch, stream, enc, released, stdin_closed, failed,
                   forwarded, stops>>

\* t_reader.join(timeout=10) returns because the time is up
MainJoinReaderTimeout ==
    /\ m_pc = "join_reader"
    /\ r_pc # "done"
    /\ m_pc' = "join_processor"
    /\ UNCHANGED <<bufVars, playerVars, overlayVars, jobVars, restVars>>
    /\ UNCHANGED <<frames_in, cap_pos, cap_opened, r_pc, r_frame, raw_q, p_pc, p_frame,
                   out_q, w_pc, batch, stream, enc, released, stdin_closed, failed,
                   forwarded, stops>>

\* t_processor.join(timeout=10) returns because the processor thread has ended;
\* t_writer.join(timeout=5) then returns at once
MainJoinProcessor ==
    /\ m_pc = "join_processor"
    /\ p_pc = "done"
    /\ m_pc' = "release"
    /\ UNCHANGED <<bufVars, playerVars, overlayVars, jobVars, restVars>>
    /\ UNCHANGED <<frames_in, cap_pos, cap_opened, r_pc, r_frame, raw_q, p_pc, p_frame,
                   out_q, w_pc, batch, stream, enc, released, stdin_closed, failed,
                   forwarded, stops>>

\* t_processor.join(timeout=10) returns because the time is up
MainJoinProcessorTimeout ==
    /\ m_pc = "join_processor"
    /\ p_pc # "done"
    /\ m_pc' = "release"
    /\ UNCHANGED <<bufVars, playerVars, overlayVars, jobVars, restVars>>
    /\ UNCHANGED <<frames_in, cap_pos, cap_opened, r_pc, r_frame, raw_q, p_pc, p_frame,
                   out_q, w_pc, batch, stream, enc, released, stdin_closed, failed,
                   forwarded, stops>>

\* cap.release(); detector.close()
MainRelease ==
    /\ m_pc = "release"
    /\ cap_opened' = FALSE
    /\ released' = TRUE
    /\ m_pc' = "close_stdin"
    /\ UNCHANGED <<bufVars, playerVars, overlayVars, jobVars, restVars>>
    /\ UNCHANGED <<frames_in, cap_pos, r_pc, r_frame, raw_q, p_pc, p_frame, out_q, w_pc,
                   batch, stream, enc, stdin_closed, failed, forwarded, stops>>

\* proc.stdin.close()
MainCloseStdin ==
    /\ m_pc = "close_stdin"
    /\ stdin_closed' = TRUE
    /\ m_pc' = "wait"
    /\ UNCHANGED <<bufVars, playerVars, overlayVars, jobVars, restVars>>
    /\ UNCHANGED <<frames_in, cap_pos, cap_opened, r_pc, r_frame, raw_q, p_pc, p_frame,
                   out_q, w_pc, batch, stream, enc, released, failed, forwarded, stops>>

\* proc.wait() returns: the encoder process has ended; its result (the exit status)
\* is dropped and process_video returns None
MainWait ==
    /\ m_pc = "wait"
    /\ enc # "running"
    /\ m_pc' = "returned"
    /\ outcome' = "returned"
    /\ UNCHANGED returncode
    /\ UNCHANGED <<bufVars, playerVars, overlayVars, restVars>>
    /\ UNCHANGED <<frames_in, cap_pos, cap_opened, r_pc, r_frame, raw_q, p_pc, p_frame,
                   out_q, w_pc, batch, stream, enc, released, stdin_closed, failed,
                   forwarded, stops>>

(* the encoder process *)

\* the encoder reads end of file on its input, finishes or gives up the output and
\* exits, with status 0 or with a non-zero status
EncoderExit ==
    /\ enc = "running"
    /\ stdin_closed
    /\ enc' = "exited"
    /\ \E status \in ExitStatuses : returncode' = <<status>>
    /\ UNCHANGED outcome
    /\ UNCHANGED <<bufVars, playerVars, overlayVars, restVars>>
    /\ UNCHANGED <<frames_in, cap_pos, cap_opened, r_pc, r_frame, raw_q, p_pc, p_frame,
                   out_q, w_pc, batch, stream, m_pc, released, stdin_closed, failed,
                   forwarded, stops>>

\* the encoder dies while its input is still open: later writes raise
EncoderDies ==
    /\ enc = "running"
    /\ ~stdin_closed
    /\ enc' = "dead"
    /\ returncode' = <<1>>
    /\ failed' = failed \cup {"encoder"}
    /\ UNCHANGED outcome
    /\ UNCHANGED <<bufVars, playerVars, overlayVars, restVars>>
    /\ UNCHANGED <<frames_in, cap_pos, cap_opened, r_pc, r_frame, raw_q, p_pc, p_frame,
                   out_q, w_pc, batch, stream, m_pc, released, stdin_closed, forwarded,
                   stops>>

ReaderStep == ReaderRead \/ ReaderEnd \/ ReaderPut \/ ReaderStop

ProcStep == ProcFrame \/ ProcBreak \/ ProcPut \/ ProcStop

WriterStep == WriterFrame \/ WriterBreak \/ WriterFlush

MainStep ==
    \/ MainJoinWriter
    \/ MainJoinReader
    \/ MainJoinProcessor
    \/ MainRelease
    \/ MainCloseStdin
    \/ MainWait

Timeout == MainJoinReaderTimeout \/ MainJoinProcessorTimeout

Failure == ReaderRaise \/ ProcRaise \/ EncoderDies

NextPipe ==
    \/ ReaderStep
    \/ ProcStep
    \/ WriterStep
    \/ MainStep
    \/ EncoderExit
    \/ Timeout
    \/ Failure

----------------------------------------------------------------------------
(* animation.py: AnimPlayer *)

\* ANIM_FADE_FRAMES of config.py; alpha is counted in units of 1/ANIM_FADE_FRAMES,
\* so that alpha = 1.0 is ANIM_FADE_FRAMES and 1.0 - n/ANIM_FADE_FRAMES is exact
ANIM_FADE_FRAMES == 15

\* alpha = 1.0
FullAlpha == ANIM_FADE_FRAMES

\* the animations a player may be given: the durations (ms) of the frames;
\* <<>> is the empty animation WebpAnimation.load returns on failure
Anims == {<<>>, <<50>>, <<30, 100>>}

\* the animations the players of an AnimOverlay may be given
OverlayAnims == {<<>>, <<40>>, <<60, 20>>}

\* self._frame_ms = 1000.0 / max(fps, 1.0), for a video of fps = 25
FrameMs == 40

\* AnimPlayer.__init__
NewPlayer ==
    [state |-> "IDLE", idx |-> 0, ms_accum |-> 0, fade_cnt |-> 0, alpha |-> FullAlpha]

\* the loop of AnimPlayer._advance: frames are left while the accumulated time
\* covers their duration (idx counts from 0)
RECURSIVE AdvanceLoop(_, _, _)
AdvanceLoop(a, idx, ms_accum) ==
    IF ms_accum < a[idx + 1]
    THEN [idx |-> idx, ms_accum |-> ms_accum]
    ELSE AdvanceLoop(a, (idx + 1) % Len(a), ms_accum - a[idx + 1])

\* AnimPlayer._advance
Advance(a, p) ==
    LET r == AdvanceLoop(a, p.idx, p.ms_accum + FrameMs)
    IN  [p EXCEPT !.idx = r.idx, !.ms_accum = r.ms_accum]

\* a mutant of FadeAlpha: the ramp is one step ahead
FadeAlpha_Ahead(fade_cnt) ==
    IF ANIM_FADE_FRAMES - fade_cnt - 1 > 0 THEN ANIM_FADE_FRAMES - fade_cnt - 1 ELSE 0

\* max(0.0, 1.0 - self._fade_cnt / ANIM_FADE_FRAMES)
FadeAlpha(fade_cnt) ==
    IF ANIM_FADE_FRAMES - fade_cnt > 0 THEN ANIM_FADE_FRAMES - fade_cnt ELSE 0

\* a mutant of Activate: the clip restarts whatever the state of the player
Activate_Restart(p) ==
    [p EXCEPT !.idx      = 0,
              !.ms_accum = 0,
              !.state    = "PLAYING",
              !.fade_cnt = 0,
              !.alpha    = FullAlpha]

\* a mutant of Activate: playback goes on from where the player stopped
Activate_Resume(p) ==
    [p EXCEPT !.state    = "PLAYING",
              !.fade_cnt = 0,
              !.alpha    = FullAlpha]

\* the first part of AnimPlayer.update: if active
Activate(p) ==
    [p EXCEPT !.idx      = IF p.state = "IDLE" THEN 0 ELSE @,
              !.ms_accum = IF p.state = "IDLE" THEN 0 ELSE @,
              !.state    = "PLAYING",
              !.fade_cnt = 0,
              !.alpha    = FullAlpha]

\* a mutant of FadeStep: the player stays Fading when alpha has reached 0
FadeStep_Stay(p) ==
    [p EXCEPT !.fade_cnt = @ + 1,
              !.alpha    = FadeAlpha(p.fade_cnt + 1)]

\* the fading branch of AnimPlayer.update
FadeStep(p) ==
    LET al == FadeAlpha(p.fade_cnt + 1)
    IN  [p EXCEPT !.fade_cnt = @ + 1,
                  !.alpha    = al,
                  !.state    = IF al <= 0 THEN "IDLE" ELSE @]

\* update without the test of an empty animation: the player is activated and
\* its frame index is left alone
Update_EmptyPlays(a, p, active) ==
    LET p1 == IF active THEN Activate(p) ELSE p
    IN  IF p1.state = "PLAYING"
        THEN [player |-> IF a = <<>> THEN p1 ELSE Advance(a, p1), ret |-> p1.alpha]
        ELSE IF p1.state = "FADING"
        THEN [player |-> FadeStep(p1), ret |-> FadeStep(p1).alpha]
        ELSE [player |-> p1, ret |-> 0]

\* AnimPlayer.update(active) on a player of animation a: the player after the
\* call and the returned alpha
Update(a, p, active) ==
    IF a = <<>> THEN [player |-> p, ret |-> 0]
    ELSE LET p1 == IF active THEN Activate(p) ELSE p
         IN  IF p1.state = "PLAYING"
             THEN [player |-> Advance(a, p1), ret |-> p1.alpha]
             ELSE IF p1.state = "FADING"
             THEN [player |-> FadeStep(p1), ret |-> FadeStep(p1).alpha]
             ELSE [player |-> p1, ret |-> 0]

\* AnimPlayer.start_fade
StartFade(p) ==
    IF p.state = "PLAYING"
    THEN [p EXCEPT !.state = "FADING", !.fade_cnt = 0, !.alpha = FullAlpha]
    ELSE p

\* AnimPlayer.is_active
IsActive(p) == p.state # "IDLE"

\* a call player.update(active)
PlayerUpdate ==
    \E active \in BOOLEAN :
        /\ player' = Update(anim, player, active).player
        /\ pcall' = [op |-> "update", active |-> active, before |-> player,
                     ret |-> Update(anim, player, active).ret]
        /\ fade_run' = IF ~active /\ fade_run >= 0 /\ fade_run < ANIM_FADE_FRAMES
                       THEN fade_run + 1 ELSE -1
        /\ UNCHANGED anim
        /\ UNCHANGED <<bufVars, pipeVars, overlayVars, jobVars, restVars>>

\* a call player.start_fade()
PlayerStartFade ==
    /\ player' = StartFade(player)
    /\ pcall' = [op |-> "start_fade", active |-> FALSE, before |-> player, ret |-> 0]
    /\ fade_run' = IF player.state = "PLAYING" THEN 0 ELSE -1
    /\ UNCHANGED anim
    /\ UNCHANGED <<bufVars, pipeVars, overlayVars, jobVars, restVars>>

NextPlayer ==
    \/ PlayerUpdate
    \/ PlayerStartFade

----------------------------------------------------------------------------
(* animation.py: AnimOverlay *)

\* self._frame_w = self._frame_h, for a video of 4 x 4 pixels
FrameSide == 4

\* int(last_nx * self._frame_w): positions are in quarters of the frame
TargetOf(n) == (n * FrameSide) \div 4

\* int(c + (t - c) * OVERLAY_SMOOTH), OVERLAY_SMOOTH = 0.25; c and t are not negative
Smooth(c, t) == (4 * c + (t - c)) \div 4

\* a mutant of FadeLost: no player starts to fade
FadeLost_Never(ps, raw_gesture) == ps

\* the first loop of update_and_draw: players whose raw signal is gone start to fade
FadeLost(ps, raw_gesture) ==
    [name \in DOMAIN ps |->
        IF ps[name].state = "PLAYING" /\ raw_gesture # name
        THEN StartFade(ps[name]) ELSE ps[name]]

\* the second loop of update_and_draw: every player is updated, active if its
\* label is the confirmed gesture
UpdateAll(as, ps, confirmed_gesture) ==
    [name \in DOMAIN ps |-> Update(as[name], ps[name], confirmed_gesture = name)]

\* a mutant of MoveCenter: the center is kept when no player is active
MoveCenter_Keep(c, ps, pos) ==
    IF \E name \in DOMAIN ps : IsActive(ps[name])
    THEN IF c = <<>>
         THEN <<TargetOf(pos[1]), TargetOf(pos[2])>>
         ELSE <<Smooth(c[1], TargetOf(pos[1])), Smooth(c[2], TargetOf(pos[2]))>>
    ELSE c

\* the position part of update_and_draw
MoveCenter(c, ps, pos) ==
    IF \E name \in DOMAIN ps : IsActive(ps[name])
    THEN IF c = <<>>
         THEN <<TargetOf(pos[1]), TargetOf(pos[2])>>
         ELSE <<Smooth(c[1], TargetOf(pos[1])), Smooth(c[2], TargetOf(pos[2]))>>
    ELSE <<>>

\* the labels update_and_draw draws: alpha > 0 and a current frame, with a center
DrawnLabels(as, c, upd) ==
    IF c = <<>> THEN {}
    ELSE {name \in DOMAIN upd : upd[name].ret > 0 /\ as[name] # <<>>}

\* AnimOverlay.update_and_draw(frame, confirmed_gesture, raw_gesture, last_nx, last_ny)
UpdateAndDraw ==
    \E confirmed_gesture \in Labels \cup {None}, raw_gesture \in Labels \cup {None},
       pos \in Positions \cup {<<2, 2>>} :
        LET faded == FadeLost(players, raw_gesture)
            upd   == UpdateAll(anims, faded, confirmed_gesture)
            after == [name \in Labels |-> upd[name].player]
            c     == MoveCenter(curr, after, pos)
        IN  /\ players' = after
            /\ curr' = c
            /\ ocall' = [op        |-> "update_and_draw",
                         confirmed |-> confirmed_gesture,
                         raw       |-> raw_gesture,
                         pos       |-> pos,
                         drawn     |-> DrawnLabels(anims, c, upd)]
            /\ UNCHANGED anims
            /\ UNCHANGED <<bufVars, pipeVars, playerVars, jobVars, restVars>>

NextOverlay == UpdateAndDraw

----------------------------------------------------------------------------
(* gesture_detector.py: GestureDetector *)

\* ROTATION_ANGLES (config.py), in the order process_frame tries them
ROTATION_ANGLES == <<0, 90, 180, 270>>

\* 1.0 in the unit of the normalized coordinates (quarters of the frame)
One == 4

\* the normalized points of a frame
Grid == (0..One) \X (0..One)

\* what the landmark provider does with the frame rotated by one angle: it finds
\* no gesture (None), finds a gesture (its label plays no part in the search),
\* or raises an error
Answers == {"like", None, "error"}

\* _rotate: where the point p of the frame lies in the frame rotated by angle
\* (cv2.ROTATE_90_CLOCKWISE, cv2.ROTATE_180, cv2.ROTATE_90_COUNTERCLOCKWISE)
Rotate(p, angle) ==
    CASE angle = 0   -> p
      [] angle = 90  -> <<One - p[2], p[1]>>
      [] angle = 180 -> <<One - p[1], One - p[2]>>
      [] angle = 270 -> <<p[2], One - p[1]>>

\* _unrotate with the cases of 90 and 270 exchanged
Unrotate_Swapped(p, angle) ==
    CASE angle = 0   -> p
      [] angle = 90  -> <<One - p[2], p[1]>>
      [] angle = 180 -> <<One - p[1], One - p[2]>>
      [] angle = 270 -> <<p[2], One - p[1]>>
      [] OTHER       -> p

\* _unrotate
Unrotate(p, angle) ==
    CASE angle = 0   -> p
      [] angle = 90  -> <<p[2], One - p[1]>>
      [] angle = 180 -> <<One - p[1], One - p[2]>>
      [] angle = 270 -> <<One - p[2], p[1]>>
      [] OTHER       -> p

NoDetection == [g |-> None, pos |-> NoPos]

\* detect_at_angle, for a frame whose hand is at the point hand and a provider
\* that answers probe[angle] on the frame rotated by angle; the landmarks are
\* those of the rotated frame
DetectAtAngle(probe, hand, angle) ==
    IF probe[angle] = "error"
    THEN [raised |-> TRUE, ret |-> NoDetection]
    ELSE IF probe[angle] = None
    THEN [raised |-> FALSE, ret |-> NoDetection]
    ELSE [raised |-> FALSE,
          ret |-> [g |-> probe[angle], pos |-> Unrotate(Rotate(hand, angle), angle)]]

\* a mutant of AngleOrder: with skip_rotation the other angles are tried backwards
AngleOrder_Backwards(skip_rotation) ==
    IF skip_rotation THEN <<0, 270, 180, 90>> ELSE ROTATION_ANGLES

\* the angles process_frame goes through, in order
AngleOrder(skip_rotation) ==
    IF skip_rotation
    THEN <<0>> \o SelectSeq(ROTATION_ANGLES, LAMBDA angle : angle # 0)
    ELSE ROTATION_ANGLES

\* the loops of process_frame from the i-th angle of order on: the first angle
\* with a gesture ends the search, and so does an error, which nothing catches
RECURSIVE Search(_, _, _, _, _)
Search(probe, hand, order, i, tried) ==
    IF i > Len(order)
    THEN [tried |-> tried, raised |-> FALSE, ret |-> NoDetection]
    ELSE LET d == DetectAtAngle(probe, hand, order[i])
             t == Append(tried, order[i])
         IN  IF d.raised \/ d.ret.g # None
             THEN [tried |-> t, raised |-> d.raised, ret |-> d.ret]
             ELSE Search(probe, hand, order, i + 1, t)

\* process_frame(frame, skip_rotation)
ProcessFrameOf(probe, hand, skip_rotation) ==
    Search(probe, hand, AngleOrder(skip_rotation), 1, <<>>)

NoDetCall ==
    [op |-> "init", skip_rotation |-> FALSE, probe |-> [angle \in {0, 90, 180, 270} |-> None],
     hand |-> <<0, 0>>, tried |-> <<>>, raised |-> FALSE, ret |-> NoDetection]

\* one call of process_frame, with any behaviour of the provider, on a frame
\* of a video whose hand is at det.hand
ProcessFrame ==
    \E skip_rotation \in BOOLEAN, probe \in [{0, 90, 180, 270} -> Answers] :
        LET r == ProcessFrameOf(probe, det.hand, skip_rotation)
        IN  /\ detector' = [detector EXCEPT !.scale_init = TRUE]
            /\ det' = [op |-> "process_frame", skip_rotation |-> skip_rotation,
                       probe |-> probe, hand |-> det.hand, tried |-> r.tried,
                       raised |-> r.raised, ret |-> r.ret]
            /\ UNCHANGED <<bufVars, pipeVars, jobVars, playerVars, overlayVars>>
            /\ UNCHANGED <<cacheVars, procVars, loadVars, blendVars, advVars, clipVars>>

NextDet == ProcessFrame

----------------------------------------------------------------------------
(* animation.py: the module-level _resize_cache, used by every job *)

\* the process_video jobs of the process, run concurrently or one after another
Jobs == {1, 2}

\* the addresses (values of id()) the frames of the loaded clips can get
Addrs == {1, 2}

\* the overlay sizes of the jobs (AnimOverlay._size)
Sizes == {2, 3}

\* a key the dict does not hold
NoEntry == [image |-> 0, writer |-> 0]

IdleJob == [pc |-> "idle", bgra |-> 0, size |-> 0]

\* process_video starts: _load_animations builds the job's own clip, whose frame
\* is a new array at a free address; AnimOverlay fixes the overlay size
JobStart(j) ==
    /\ jobs[j].pc = "idle"
    /\ \E addr \in Addrs, size \in Sizes :
          /\ heap[addr] = 0
          /\ heap' = [heap EXCEPT ![addr] = j]
          /\ jobs' = [jobs EXCEPT ![j] = [pc |-> "running", bgra |-> addr, size |-> size]]
    /\ UNCHANGED <<resize_cache, last_get>>
    /\ UNCHANGED <<bufVars, pipeVars, jobVars, playerVars, overlayVars>>
    /\ UNCHANGED <<detVars, procVars, loadVars, blendVars, advVars, clipVars>>

\* _ResizeCache.get(bgra, size) called by job j: the entry under
\* (id(bgra), size), stored first if the key is not in the dict
CacheGet(cache, key, image, j) ==
    IF cache[key] = NoEntry THEN [image |-> image, writer |-> j] ELSE cache[key]

\* overlay_bgra in job j (line 163): the resized image comes from _resize_cache
JobOverlay(j) ==
    /\ jobs[j].pc = "running"
    /\ LET key   == <<jobs[j].bgra, jobs[j].size>>
           entry == CacheGet(resize_cache, key, heap[jobs[j].bgra], j)
       IN  /\ resize_cache' = [resize_cache EXCEPT ![key] = entry]
           /\ last_get' = [job |-> j, image |-> entry.image, writer |-> entry.writer]
    /\ UNCHANGED <<heap, jobs>>
    /\ UNCHANGED <<bufVars, pipeVars, jobVars, playerVars, overlayVars>>
    /\ UNCHANGED <<detVars, procVars, loadVars, blendVars, advVars, clipVars>>

\* process_video returns: the job's clip is garbage and its address is free
\* again; the dict keeps its entries
JobEnd(j) ==
    /\ jobs[j].pc = "running"
    /\ heap' = [heap EXCEPT ![jobs[j].bgra] = 0]
    /\ jobs' = [jobs EXCEPT ![j] = IdleJob]
    /\ UNCHANGED <<resize_cache, last_get>>
    /\ UNCHANGED <<bufVars, pipeVars, jobVars, playerVars, overlayVars>>
    /\ UNCHANGED <<detVars, procVars, loadVars, blendVars, advVars, clipVars>>

NextJobs == \E j \in Jobs : JobStart(j) \/ JobOverlay(j) \/ JobEnd(j)

----------------------------------------------------------------------------
(* video_processor.py: the loop of _processor_thread, one iteration per frame *)

\* _DETECTION_SKIP_AFTER_CONFIRM
DETECTION_SKIP_AFTER_CONFIRM == 2

\* the skip test with a bound of one frame more
ShouldSkip_More(confirmed, counter) ==
    confirmed # None /\ DETECTION_SKIP_AFTER_CONFIRM > 0
                     /\ counter < DETECTION_SKIP_AFTER_CONFIRM + 1

\* the skip test with a bound of one frame
ShouldSkip_Once(confirmed, counter) ==
    confirmed # None /\ DETECTION_SKIP_AFTER_CONFIRM > 0 /\ counter < 1

\* the skip test without the test of buf.confirmed
ShouldSkip_Unconfirmed(confirmed, counter) ==
    DETECTION_SKIP_AFTER_CONFIRM > 0 /\ counter < DETECTION_SKIP_AFTER_CONFIRM

\* lines 173-176: should_detect is set to False
ShouldSkip(confirmed, counter) ==
    confirmed # None /\ DETECTION_SKIP_AFTER_CONFIRM > 0
                     /\ counter < DETECTION_SKIP_AFTER_CONFIRM

\* lines 174-179: skip_counter after the test
NextSkipCounter(confirmed, counter) ==
    IF confirmed # None /\ DETECTION_SKIP_AFTER_CONFIRM > 0
    THEN IF counter < DETECTION_SKIP_AFTER_CONFIRM THEN counter + 1 ELSE 0
    ELSE counter

\* what the classifier reports for a frame in a job where the user shows one
\* gesture: the gesture, or no gesture
Shown == {"like", None}

\* the state before the first iteration
NoIter == [op |-> "init", should_detect |-> FALSE, pushes |-> 0, skips |-> 0,
           put |-> FALSE]

\* one iteration of the loop for a frame taken from raw_q: the skip test, the
\* classification (process_frame returns raw_g, with its position if it is a
\* label) and the push, update_and_draw, out_q.put
Iteration(raw_g, pos) ==
        LET should_detect == ~ShouldSkip(buf.confirmed, skip_counter)
            b         == IF ~should_detect THEN buf
                         ELSE IF raw_g = None THEN PushBuf(buf, None, NoPos)
                         ELSE PushBuf(buf, raw_g, pos)
            raw       == IF should_detect THEN raw_g ELSE last_raw_g
            confirmed == b.confirmed
            faded     == FadeLost(players, raw)
            upd       == UpdateAll(anims, faded, confirmed)
            after     == [name \in Labels |-> upd[name].player]
            c         == MoveCenter(curr, after, <<b.last_nx, b.last_ny>>)
            silent    == quiet.frames >= 0 /\ (should_detect => raw_g = None)
        IN  /\ skip_counter' = NextSkipCounter(buf.confirmed, skip_counter)
            /\ last_raw_g' = raw
            /\ buf' = b
            /\ call' = IF should_detect
                       THEN [op |-> "push", raw |-> raw_g,
                             pos |-> IF raw_g = None THEN NoPos ELSE pos,
                             ret |-> b.confirmed]
                       ELSE call
            /\ gap_start' = IF should_detect /\ raw_g # None THEN b.confirmed ELSE gap_start
            /\ UNCHANGED pushed
            /\ players' = after
            /\ curr' = c
            /\ ocall' = [op        |-> "update_and_draw",
                         confirmed |-> confirmed,
                         raw       |-> raw,
                         pos       |-> <<b.last_nx, b.last_ny>>,
                         drawn     |-> DrawnLabels(anims, c, upd)]
            /\ piter' = [op            |-> "iter",
                         should_detect |-> should_detect,
                         pushes        |-> IF should_detect THEN 1 ELSE 0,
                         skips         |-> IF should_detect THEN 0 ELSE piter.skips + 1,
                         put           |-> TRUE]
            /\ quiet' = IF silent
                        THEN [frames     |-> quiet.frames + 1,
                              classified |-> quiet.classified + (IF should_detect THEN 1 ELSE 0),
                              forwarded  |-> quiet.forwarded + 1]
                        ELSE [frames |-> -1, classified |-> -1, forwarded |-> -1]
            /\ UNCHANGED <<anims, shown>>
            /\ UNCHANGED <<pipeVars, jobVars, playerVars>>
            /\ UNCHANGED <<detVars, cacheVars, loadVars, blendVars, advVars, clipVars>>

\* an iteration while the hand may be shown: the classifier reports any of shown
\* (runs of frames without a gesture are cut at MaxStreak pushes)
ProcIter ==
    \E raw_g \in shown, pos \in Positions :
        /\ lost = 0
        /\ (~ShouldSkip(buf.confirmed, skip_counter) /\ raw_g = None)
               => buf.no_hand_streak < MaxStreak
        /\ Iteration(raw_g, pos)
        /\ UNCHANGED lost

\* the number of frames followed after the hand is taken away
MaxLost == 36

\* an iteration after the hand is taken away: from then on the classifier, when
\* it is invoked, finds no gesture
ProcLost ==
    /\ lost < MaxLost
    /\ Iteration(None, NoPos)
    /\ lost' = lost + 1

NextProc == ProcIter

NextLoss == ProcIter \/ ProcLost

----------------------------------------------------------------------------
(* animation.py: WebpAnimation.load *)

\* the largest number of frames of a clip file
MaxClipFrames == 3

\* the durations (ms) of the frames of a file: img.info.get("duration", 50)
Durations == {40, 50}

\* the clip files: the durations of their frames (n_frames is at least 1)
ClipFiles == UNION {[1..n -> Durations] : n \in 1..MaxClipFrames}

\* the state outside a call of load; fail_at is where the file cannot be
\* decoded: 0 for Image.open, k for the k-th frame, -1 for nowhere
NoLoad == [pc |-> "open", file |-> <<>>, fail_at |-> -1, i |-> 0, frames |-> <<>>,
           failed |-> FALSE]

\* anim = cls(); img = Image.open(path); an error is caught by the except
\* clause, which prints, and anim is returned
LoadOpen ==
    /\ load.pc = "open"
    /\ load' = IF load.fail_at = 0
               THEN [load EXCEPT !.pc = "returned", !.failed = TRUE]
               ELSE [load EXCEPT !.pc = "loop"]
    /\ UNCHANGED <<bufVars, pipeVars, jobVars, playerVars, overlayVars>>
    /\ UNCHANGED <<detVars, cacheVars, procVars, blendVars, advVars, clipVars>>

\* one pass of the loop: seek, convert and append frame i; an error is caught by
\* the except clause, which prints, and anim is returned as it is
LoadFrame ==
    /\ load.pc = "loop"
    /\ load.i < Len(load.file)
    /\ load' = IF load.fail_at = load.i + 1
               THEN [load EXCEPT !.pc = "returned", !.failed = TRUE]
               ELSE [load EXCEPT !.frames = Append(@, load.file[load.i + 1]),
                                 !.i = @ + 1]
    /\ UNCHANGED <<bufVars, pipeVars, jobVars, playerVars, overlayVars>>
    /\ UNCHANGED <<detVars, cacheVars, procVars, blendVars, advVars, clipVars>>

\* the loop is over: return anim
LoadReturn ==
    /\ load.pc = "loop"
    /\ load.i = Len(load.file)
    /\ load' = [load EXCEPT !.pc = "returned"]
    /\ UNCHANGED <<bufVars, pipeVars, jobVars, playerVars, overlayVars>>
    /\ UNCHANGED <<detVars, cacheVars, procVars, blendVars, advVars, clipVars>>

NextLoad == LoadOpen \/ LoadFrame \/ LoadReturn

----------------------------------------------------------------------------
(* animation.py: the blend of overlay_bgra, for one channel of one pixel *)

\* Numbers of float32 arithmetic are counted in units of 2^-31 and written as
\* pairs <<hi, lo>> of value hi * 256 + lo, with lo in 0..255.

RECURSIVE Pow2(_)
Pow2(n) == IF n = 0 THEN 1 ELSE 2 * Pow2(n - 1)

\* the number of binary digits of n
RECURSIVE BitLen(_)
BitLen(n) == IF n = 0 THEN 0 ELSE 1 + BitLen(n \div 2)

\* np.float32(1.0 / 255.0) is (2^23 + InvLow) * 2^-31, the float nearest to 1/255
InvLow == 32897

\* the product with 1.0 / 255.0 cut off instead of rounded to a float32
AlphaProduct_Truncated(a) ==
    LET low == a * (InvLow - 1)
    IN  <<a * 32768 + low \div 256, low % 256>>

\* the exact product a * np.float32(1.0 / 255.0) of line 135
AlphaProduct(a) ==
    LET low == a * InvLow
    IN  <<a * 32768 + low \div 256, low % 256>>

\* the float32 nearest to the number v (24 binary digits, ties to even)
RoundF32(v) ==
    LET d == BitLen(v[1]) - 16
    IN  IF d <= 0 THEN v
        ELSE LET keep == v[1] * Pow2(8 - d) + v[2] \div Pow2(d)
                 rest == v[2] % Pow2(d)
                 up   == rest * 2 > Pow2(d) \/ (rest * 2 = Pow2(d) /\ keep % 2 = 1)
                 m    == IF up THEN keep + 1 ELSE keep
             IN  <<m \div Pow2(8 - d), (m % Pow2(8 - d)) * Pow2(d)>>

\* alpha_f of _ResizeCache.get for the alpha byte a: a.astype(np.float32) * (1.0 / 255.0)
AlphaF(a) == RoundF32(AlphaProduct(a))

\* the float32 1.0
OneF == <<Pow2(23), 0>>

\* the float32 0.0
ZeroF == <<0, 0>>

\* the bytes of a channel
Bytes == 0..255

\* lines 177-189 for a destination value dst under an overlay pixel of color src
\* and alpha byte a: the values the pixel can get.  With alpha exactly 0.0 or
\* exactly 1.0 the products and the sum are exact; otherwise the float32 result
\* lies within one rounding step of the exact blend, and astype(np.uint8)
\* cuts it to the integer below
Blend(dst, src, a, alpha_mul) ==
    LET alpha == AlphaF(a)
        zero  == alpha = ZeroF \/ alpha_mul = 0
        one   == alpha = OneF /\ alpha_mul = FullAlpha
        w     == a * alpha_mul
        W     == 255 * FullAlpha
        exact == (src * w + dst * (W - w)) \div W
    IN  IF zero THEN {dst}
        ELSE IF one THEN {src}
        ELSE {exact - 1, exact, exact + 1} \cap Bytes

\* the colors of the overlay pixels and of the frame's pixels
Colors == {0, 100, 255}

\* the alpha bytes of the overlay pixels
AlphaBytes == {0, 128, 255}

\* the values of alpha_mul (1.0 is FullAlpha)
AlphaMuls == {5, FullAlpha}

NoBlend == [op |-> "init", dst |-> 0, src |-> 0, a |-> 0, alpha_mul |-> FullAlpha]

\* overlay_bgra draws an overlay pixel over the pixel
OverlayPixel ==
    \E src \in Colors, a \in AlphaBytes, alpha_mul \in AlphaMuls :
        /\ pixel' \in Blend(pixel, src, a, alpha_mul)
        /\ bcall' = [op |-> "overlay_bgra", dst |-> pixel, src |-> src, a |-> a,
                     alpha_mul |-> alpha_mul]
        /\ UNCHANGED <<bufVars, pipeVars, jobVars, playerVars, overlayVars>>
        /\ UNCHANGED <<detVars, cacheVars, procVars, loadVars, advVars, clipVars>>

NextBlend == OverlayPixel

----------------------------------------------------------------------------
(* animation.py: AnimPlayer._advance, one step per pass of its loop *)

\* the durations (ms) a frame of a clip can have: load stores what the file says
AdvDurations == {0, 30, 50}

\* the clips: one or two frames
AdvClips == [{1} -> AdvDurations] \cup [{1, 2} -> AdvDurations]

\* the player before the first update: frame 0, no time accumulated; pass is the
\* parity of the passes of while True taken so far
NoAdvance == [pc |-> "update", clip |-> <<50>>, idx |-> 0, ms_accum |-> 0, pass |-> 0]

\* update(active) on the PLAYING player calls _advance:
\* self._ms_accum += self._frame_ms
AdvanceEnter ==
    /\ adv.pc = "update"
    /\ adv' = [adv EXCEPT !.pc = "loop", !.ms_accum = @ + FrameMs, !.pass = 0]
    /\ UNCHANGED <<bufVars, pipeVars, jobVars, playerVars, overlayVars>>
    /\ UNCHANGED <<detVars, cacheVars, procVars, loadVars, blendVars, clipVars>>

\* a pass of while True that ends the loop: self._ms_accum < dur, break
AdvanceBreak ==
    /\ adv.pc = "loop"
    /\ adv.ms_accum < adv.clip[adv.idx + 1]
    /\ adv' = [adv EXCEPT !.pc = "return"]
    /\ UNCHANGED <<bufVars, pipeVars, jobVars, playerVars, overlayVars>>
    /\ UNCHANGED <<detVars, cacheVars, procVars, loadVars, blendVars, clipVars>>

\* a pass of while True that leaves a frame: self._ms_accum -= dur;
\* self._idx = (self._idx + 1) % len(frames)
AdvanceFrame ==
    /\ adv.pc = "loop"
    /\ adv.ms_accum >= adv.clip[adv.idx + 1]
    /\ adv' = [adv EXCEPT !.ms_accum = @ - adv.clip[adv.idx + 1],
                          !.idx      = (@ + 1) % Len(adv.clip),
                          !.pass     = 1 - @]
    /\ UNCHANGED <<bufVars, pipeVars, jobVars, playerVars, overlayVars>>
    /\ UNCHANGED <<detVars, cacheVars, procVars, loadVars, blendVars, clipVars>>

\* _advance returns, update returns self.alpha; the next frame's update follows
AdvanceReturn ==
    /\ adv.pc = "return"
    /\ adv' = [adv EXCEPT !.pc = "update"]
    /\ UNCHANGED <<bufVars, pipeVars, jobVars, playerVars, overlayVars>>
    /\ UNCHANGED <<detVars, cacheVars, procVars, loadVars, blendVars, clipVars>>

NextAdvance == AdvanceEnter \/ AdvanceBreak \/ AdvanceFrame \/ AdvanceReturn

----------------------------------------------------------------------------
(* animation.py: the clipping of overlay_bgra *)

\* h_bg, w_bg = bg.shape[:2], for a frame of 3 x 2 pixels
ClipW == 3

ClipH == 2

\* the pixels of the frame, <<x, y>> with x the column
FramePixels == (0..(ClipW - 1)) \X (0..(ClipH - 1))

\* the centers (one coordinate) and the sizes overlay_bgra is called with
Centers == (0 - 3)..6

OverlaySizes == {1, 2, 3}

Max(a, b) == IF a >= b THEN a ELSE b

Min(a, b) == IF a <= b THEN a ELSE b

\* the indices a[lo:hi] selects in an axis of length n: a negative bound counts
\* from the end, and both bounds are cut to 0..n
PySlice(lo, hi, n) ==
    LET l == IF lo < 0 THEN Max(lo + n, 0) ELSE Min(lo, n)
        h == IF hi < 0 THEN Max(hi + n, 0) ELSE Min(hi, n)
    IN  l..(h - 1)

\* a mutant of DestStart: the start of the destination slice is not cut to 0
DestStart_Unclipped(p1) == p1

\* ex1 = max(0, x1)
DestStart(p1) == Max(0, p1)

\* the bounds overlay_bgra computes along one axis of length n for the center c
\* and the size s: the overlay's first pixel p1, the source slice s1:s2 and the
\* destination slice e1:e2
Span(c, s, n) ==
    LET p1 == c - (s \div 2)
        p2 == p1 + s
        s1 == Max(0, 0 - p1)
        e1 == DestStart(p1)
        e2 == Min(n, p2)
    IN  [p1 |-> p1, s1 |-> s1, s2 |-> s1 + (e2 - e1), e1 |-> e1, e2 |-> e2]

\* the state before any call
NoOverlayBgra ==
    [op |-> "init", cx |-> 0, cy |-> 0, s |-> 2, returned |-> TRUE,
     src |-> <<{}, {}>>, dst |-> <<{}, {}>>, written |-> {}]

\* overlay_bgra(bg, anim_bgra, cx, cy, size, alpha_mul): s = max(2, size); it
\* returns at once if a destination slice is empty, else the blend of
\* bgr_f[sy1:sy2, sx1:sx2] is stored in bg[ey1:ey2, ex1:ex2]
OverlayBgra ==
    \E cx \in Centers, cy \in Centers, size \in OverlaySizes :
        LET s  == Max(2, size)
            X  == Span(cx, s, ClipW)
            Y  == Span(cy, s, ClipH)
            dx == PySlice(X.e1, X.e2, ClipW)
            dy == PySlice(Y.e1, Y.e2, ClipH)
        IN  /\ ov' = IF X.e2 <= X.e1 \/ Y.e2 <= Y.e1
                     THEN [op |-> "overlay_bgra", cx |-> cx, cy |-> cy, s |-> s,
                           returned |-> TRUE, src |-> <<{}, {}>>, dst |-> <<{}, {}>>,
                           written |-> {}]
                     ELSE [op |-> "overlay_bgra", cx |-> cx, cy |-> cy, s |-> s,
                           returned |-> FALSE,
                           src |-> <<PySlice(X.s1, X.s2, s), PySlice(Y.s1, Y.s2, s)>>,
                           dst |-> <<dx, dy>>,
                           written |-> dx \X dy]
            /\ UNCHANGED <<bufVars, pipeVars, jobVars, playerVars, overlayVars>>
            /\ UNCHANGED <<detVars, cacheVars, procVars, loadVars, blendVars, advVars>>

NextClip == OverlayBgra

----------------------------------------------------------------------------
(* Specifications *)

\* GestureBuffer under any sequence of pushes
InitBuf ==
    /\ buf = NewGestureBuffer
    /\ call = NoCall
    /\ gap_start = None
    /\ frames_in = 0
    /\ cap_pos = 0
    /\ cap_opened = TRUE
    /\ r_pc = "read"
    /\ r_frame = <<>>
    /\ raw_q = <<>>
    /\ p_pc = "get"
    /\ p_frame = <<>>
    /\ out_q = <<>>
    /\ w_pc = "get"
    /\ batch = <<>>
    /\ stream = <<>>
    /\ enc = "running"
    /\ m_pc = "join_writer"
    /\ released = FALSE
    /\ stdin_closed = FALSE
    /\ failed = {}
    /\ forwarded = <<>>
    /\ stops = [raw |-> 0, out |-> 0]
    /\ anim = <<>>
    /\ player = NewPlayer
    /\ pcall = [op |-> "init", active |-> FALSE, before |-> NewPlayer, ret |-> 0]
    /\ fade_run = -1
    /\ anims = [name \in Labels |-> <<>>]
    /\ players = [name \in Labels |-> NewPlayer]
    /\ curr = <<>>
    /\ ocall = NoOverlayCall
    /\ returncode = <<>>
    /\ outcome = "running"
    /\ detector = [scale_init |-> FALSE]
    /\ det = NoDetCall
    /\ heap = [addr \in Addrs |-> 0]
    /\ resize_cache = [key \in Addrs \X Sizes |-> NoEntry]
    /\ jobs = [j \in Jobs |-> IdleJob]
    /\ last_get = [job |-> 0, image |-> 0, writer |-> 0]
    /\ skip_counter = 0
    /\ last_raw_g = None
    /\ piter = NoIter
    /\ quiet = [frames |-> 0, classified |-> 0, forwarded |-> 0]
    /\ load = NoLoad
    /\ pixel = 0
    /\ bcall = NoBlend
    /\ adv = NoAdvance
    /\ ov = NoOverlayBgra
    /\ shown = Shown
    /\ lost = 0
    /\ pushed = <<>>

SpecBuf == InitBuf /\ [][NextBuf]_vars

\* the pipeline when process_video has started its three threads (line 261),
\* for every number of input frames
InitPipe ==
    /\ buf = NewGestureBuffer
    /\ call = NoCall
    /\ gap_start = None
    /\ frames_in \in 0..MaxFrames
    /\ cap_pos = 0
    /\ cap_opened = TRUE
    /\ r_pc = "read"
    /\ r_frame = <<>>
    /\ raw_q = <<>>
    /\ p_pc = "get"
    /\ p_frame = <<>>
    /\ out_q = <<>>
    /\ w_pc = "get"
    /\ batch = <<>>
    /\ stream = <<>>
    /\ enc = "running"
    /\ m_pc = "join_writer"
    /\ released = FALSE
    /\ stdin_closed = FALSE
    /\ failed = {}
    /\ forwarded = <<>>
    /\ stops = [raw |-> 0, out |-> 0]
    /\ anim = <<>>
    /\ player = NewPlayer
    /\ pcall = [op |-> "init", active |-> FALSE, before |-> NewPlayer, ret |-> 0]
    /\ fade_run = -1
    /\ anims = [name \in Labels |-> <<>>]
    /\ players = [name \in Labels |-> NewPlayer]
    /\ curr = <<>>
    /\ ocall = NoOverlayCall
    /\ returncode = <<>>
    /\ outcome = "running"
    /\ detector = [scale_init |-> FALSE]
    /\ det = NoDetCall
    /\ heap = [addr \in Addrs |-> 0]
    /\ resize_cache = [key \in Addrs \X Sizes |-> NoEntry]
    /\ jobs = [j \in Jobs |-> IdleJob]
    /\ last_get = [job |-> 0, image |-> 0, writer |-> 0]
    /\ skip_counter = 0
    /\ last_raw_g = None
    /\ piter = NoIter
    /\ quiet = [frames |-> 0, classified |-> 0, forwarded |-> 0]
    /\ load = NoLoad
    /\ pixel = 0
    /\ bcall = NoBlend
    /\ adv = NoAdvance
    /\ ov = NoOverlayBgra
    /\ shown = Shown
    /\ lost = 0
    /\ pushed = <<>>

\* the pipeline, any interleaving of its threads, with failures and timeouts
SpecPipe == InitPipe /\ [][NextPipe]_vars

\* the pipeline under fair scheduling: a thread that can run does run, the main
\* thread goes on when what it waits for has happened, and the encoder exits at
\* the end of its input; exceptions and timeouts are not forced
FairPipe ==
    /\ SpecPipe
    /\ WF_vars(ReaderStep)
    /\ WF_vars(ProcStep)
    /\ WF_vars(WriterStep)
    /\ WF_vars(MainStep)
    /\ WF_vars(EncoderExit)

\* one AnimPlayer, of any of the animations, under any sequence of calls
InitPlayer ==
    /\ buf = NewGestureBuffer
    /\ call = NoCall
    /\ gap_start = None
    /\ frames_in = 0
    /\ cap_pos = 0
    /\ cap_opened = TRUE
    /\ r_pc = "read"
    /\ r_frame = <<>>
    /\ raw_q = <<>>
    /\ p_pc = "get"
    /\ p_frame = <<>>
    /\ out_q = <<>>
    /\ w_pc = "get"
    /\ batch = <<>>
    /\ stream = <<>>
    /\ enc = "running"
    /\ m_pc = "join_writer"
    /\ released = FALSE
    /\ stdin_closed = FALSE
    /\ failed = {}
    /\ forwarded = <<>>
    /\ stops = [raw |-> 0, out |-> 0]
    /\ anim \in Anims
    /\ player = NewPlayer
    /\ pcall = [op |-> "init", active |-> FALSE, before |-> NewPlayer, ret |-> 0]
    /\ fade_run = -1
    /\ anims = [name \in Labels |-> <<>>]
    /\ players = [name \in Labels |-> NewPlayer]
    /\ curr = <<>>
    /\ ocall = NoOverlayCall
    /\ returncode = <<>>
    /\ outcome = "running"
    /\ detector = [scale_init |-> FALSE]
    /\ det = NoDetCall
    /\ heap = [addr \in Addrs |-> 0]
    /\ resize_cache = [key \in Addrs \X Sizes |-> NoEntry]
    /\ jobs = [j \in Jobs |-> IdleJob]
    /\ last_get = [job |-> 0, image |-> 0, writer |-> 0]
    /\ skip_counter = 0
    /\ last_raw_g = None
    /\ piter = NoIter
    /\ quiet = [frames |-> 0, classified |-> 0, forwarded |-> 0]
    /\ load = NoLoad
    /\ pixel = 0
    /\ bcall = NoBlend
    /\ adv = NoAdvance
    /\ ov = NoOverlayBgra
    /\ shown = Shown
    /\ lost = 0
    /\ pushed = <<>>

SpecPlayer == InitPlayer /\ [][NextPlayer]_vars

\* AnimOverlay with one player per label, under any sequence of update_and_draw calls
InitOverlay ==
    /\ buf = NewGestureBuffer
    /\ call = NoCall
    /\ gap_start = None
    /\ frames_in = 0
    /\ cap_pos = 0
    /\ cap_opened = TRUE
    /\ r_pc = "read"
    /\ r_frame = <<>>
    /\ raw_q = <<>>
    /\ p_pc = "get"
    /\ p_frame = <<>>
    /\ out_q = <<>>
    /\ w_pc = "get"
    /\ batch = <<>>
    /\ stream = <<>>
    /\ enc = "running"
    /\ m_pc = "join_writer"
    /\ released = FALSE
    /\ stdin_closed = FALSE
    /\ failed = {}
    /\ forwarded = <<>>
    /\ stops = [raw |-> 0, out |-> 0]
    /\ anim = <<>>
    /\ player = NewPlayer
    /\ pcall = [op |-> "init", active |-> FALSE, before |-> NewPlayer, ret |-> 0]
    /\ fade_run = -1
    /\ anims \in [Labels -> OverlayAnims]
    /\ players = [name \in Labels |-> NewPlayer]
    /\ curr = <<>>
    /\ ocall = NoOverlayCall
    /\ returncode = <<>>
    /\ outcome = "running"
    /\ detector = [scale_init |-> FALSE]
    /\ det = NoDetCall
    /\ heap = [addr \in Addrs |-> 0]
    /\ resize_cache = [key \in Addrs \X Sizes |-> NoEntry]
    /\ jobs = [j \in Jobs |-> IdleJob]
    /\ last_get = [job |-> 0, image |-> 0, writer |-> 0]
    /\ skip_counter = 0
    /\ last_raw_g = None
    /\ piter = NoIter
    /\ quiet = [frames |-> 0, classified |-> 0, forwarded |-> 0]
    /\ load = NoLoad
    /\ pixel = 0
    /\ bcall = NoBlend
    /\ adv = NoAdvance
    /\ ov = NoOverlayBgra
    /\ shown = Shown
    /\ lost = 0
    /\ pushed = <<>>

SpecOverlay == InitOverlay /\ [][NextOverlay]_vars

\* GestureDetector under any sequence of process_frame calls, for every position
\* of the hand in the frame
InitDet ==
    /\ buf = NewGestureBuffer
    /\ call = NoCall
    /\ gap_start = None
    /\ frames_in = 0
    /\ cap_pos = 0
    /\ cap_opened = TRUE
    /\ r_pc = "read"
    /\ r_frame = <<>>
    /\ raw_q = <<>>
    /\ p_pc = "get"
    /\ p_frame = <<>>
    /\ out_q = <<>>
    /\ w_pc = "get"
    /\ batch = <<>>
    /\ stream = <<>>
    /\ enc = "running"
    /\ m_pc = "join_writer"
    /\ released = FALSE
    /\ stdin_closed = FALSE
    /\ failed = {}
    /\ forwarded = <<>>
    /\ stops = [raw |-> 0, out |-> 0]
    /\ anim = <<>>
    /\ player = NewPlayer
    /\ pcall = [op |-> "init", active |-> FALSE, before |-> NewPlayer, ret |-> 0]
    /\ fade_run = -1
    /\ anims = [name \in Labels |-> <<>>]
    /\ players = [name \in Labels |-> NewPlayer]
    /\ curr = <<>>
    /\ ocall = NoOverlayCall
    /\ returncode = <<>>
    /\ outcome = "running"
    /\ detector = [scale_init |-> FALSE]
    /\ det \in {[NoDetCall EXCEPT !.hand = hand] : hand \in Grid}
    /\ heap = [addr \in Addrs |-> 0]
    /\ resize_cache = [key \in Addrs \X Sizes |-> NoEntry]
    /\ jobs = [j \in Jobs |-> IdleJob]
    /\ last_get = [job |-> 0, image |-> 0, writer |-> 0]
    /\ skip_counter = 0
    /\ last_raw_g = None
    /\ piter = NoIter
    /\ quiet = [frames |-> 0, classified |-> 0, forwarded |-> 0]
    /\ load = NoLoad
    /\ pixel = 0
    /\ bcall = NoBlend
    /\ adv = NoAdvance
    /\ ov = NoOverlayBgra
    /\ shown = Shown
    /\ lost = 0
    /\ pushed = <<>>

SpecDet == InitDet /\ [][NextDet]_vars

\* the jobs of one process: each handler call runs process_video in a thread
InitJobs ==
    /\ buf = NewGestureBuffer
    /\ call = NoCall
    /\ gap_start = None
    /\ frames_in = 0
    /\ cap_pos = 0
    /\ cap_opened = TRUE
    /\ r_pc = "read"
    /\ r_frame = <<>>
    /\ raw_q = <<>>
    /\ p_pc = "get"
    /\ p_frame = <<>>
    /\ out_q = <<>>
    /\ w_pc = "get"
    /\ batch = <<>>
    /\ stream = <<>>
    /\ enc = "running"
    /\ m_pc = "join_writer"
    /\ released = FALSE
    /\ stdin_closed = FALSE
    /\ failed = {}
    /\ forwarded = <<>>
    /\ stops = [raw |-> 0, out |-> 0]
    /\ anim = <<>>
    /\ player = NewPlayer
    /\ pcall = [op |-> "init", active |-> FALSE, before |-> NewPlayer, ret |-> 0]
    /\ fade_run = -1
    /\ anims = [name \in Labels |-> <<>>]
    /\ players = [name \in Labels |-> NewPlayer]
    /\ curr = <<>>
    /\ ocall = NoOverlayCall
    /\ returncode = <<>>
    /\ outcome = "running"
    /\ detector = [scale_init |-> FALSE]
    /\ det = NoDetCall
    /\ heap = [addr \in Addrs |-> 0]
    /\ resize_cache = [key \in Addrs \X Sizes |-> NoEntry]
    /\ jobs = [j \in Jobs |-> IdleJob]
    /\ last_get = [job |-> 0, image |-> 0, writer |-> 0]
    /\ skip_counter = 0
    /\ last_raw_g = None
    /\ piter = NoIter
    /\ quiet = [frames |-> 0, classified |-> 0, forwarded |-> 0]
    /\ load = NoLoad
    /\ pixel = 0
    /\ bcall = NoBlend
    /\ adv = NoAdvance
    /\ ov = NoOverlayBgra
    /\ shown = Shown
    /\ lost = 0
    /\ pushed = <<>>

SpecJobs == InitJobs /\ [][NextJobs]_vars

\* the processor of one job, frame by frame, for every behaviour of the classifier
\* and every outcome of loading the clips
InitProc ==
    /\ buf = NewGestureBuffer
    /\ call = NoCall
    /\ gap_start = None
    /\ frames_in = 0
    /\ cap_pos = 0
    /\ cap_opened = TRUE
    /\ r_pc = "read"
    /\ r_frame = <<>>
    /\ raw_q = <<>>
    /\ p_pc = "get"
    /\ p_frame = <<>>
    /\ out_q = <<>>
    /\ w_pc = "get"
    /\ batch = <<>>
    /\ stream = <<>>
    /\ enc = "running"
    /\ m_pc = "join_writer"
    /\ released = FALSE
    /\ stdin_closed = FALSE
    /\ failed = {}
    /\ forwarded = <<>>
    /\ stops = [raw |-> 0, out |-> 0]
    /\ anim = <<>>
    /\ player = NewPlayer
    /\ pcall = [op |-> "init", active |-> FALSE, before |-> NewPlayer, ret |-> 0]
    /\ fade_run = -1
    /\ anims \in [Labels -> OverlayAnims]
    /\ players = [name \in Labels |-> NewPlayer]
    /\ curr = <<>>
    /\ ocall = NoOverlayCall
    /\ returncode = <<>>
    /\ outcome = "running"
    /\ detector = [scale_init |-> FALSE]
    /\ det = NoDetCall
    /\ heap = [addr \in Addrs |-> 0]
    /\ resize_cache = [key \in Addrs \X Sizes |-> NoEntry]
    /\ jobs = [j \in Jobs |-> IdleJob]
    /\ last_get = [job |-> 0, image |-> 0, writer |-> 0]
    /\ skip_counter = 0
    /\ last_raw_g = None
    /\ piter = NoIter
    /\ quiet = [frames |-> 0, classified |-> 0, forwarded |-> 0]
    /\ load = NoLoad
    /\ pixel = 0
    /\ bcall = NoBlend
    /\ adv = NoAdvance
    /\ ov = NoOverlayBgra
    /\ shown = Shown
    /\ lost = 0
    /\ pushed = <<>>

SpecProc == InitProc /\ [][NextProc]_vars

\* one call of WebpAnimation.load, for every file and every place of failure
InitLoad ==
    /\ buf = NewGestureBuffer
    /\ call = NoCall
    /\ gap_start = None
    /\ frames_in = 0
    /\ cap_pos = 0
    /\ cap_opened = TRUE
    /\ r_pc = "read"
    /\ r_frame = <<>>
    /\ raw_q = <<>>
    /\ p_pc = "get"
    /\ p_frame = <<>>
    /\ out_q = <<>>
    /\ w_pc = "get"
    /\ batch = <<>>
    /\ stream = <<>>
    /\ enc = "running"
    /\ m_pc = "join_writer"
    /\ released = FALSE
    /\ stdin_closed = FALSE
    /\ failed = {}
    /\ forwarded = <<>>
    /\ stops = [raw |-> 0, out |-> 0]
    /\ anim = <<>>
    /\ player = NewPlayer
    /\ pcall = [op |-> "init", active |-> FALSE, before |-> NewPlayer, ret |-> 0]
    /\ fade_run = -1
    /\ anims = [name \in Labels |-> <<>>]
    /\ players = [name \in Labels |-> NewPlayer]
    /\ curr = <<>>
    /\ ocall = NoOverlayCall
    /\ returncode = <<>>
    /\ outcome = "running"
    /\ detector = [scale_init |-> FALSE]
    /\ det = NoDetCall
    /\ heap = [addr \in Addrs |-> 0]
    /\ resize_cache = [key \in Addrs \X Sizes |-> NoEntry]
    /\ jobs = [j \in Jobs |-> IdleJob]
    /\ last_get = [job |-> 0, image |-> 0, writer |-> 0]
    /\ skip_counter = 0
    /\ last_raw_g = None
    /\ piter = NoIter
    /\ quiet = [frames |-> 0, classified |-> 0, forwarded |-> 0]
    /\ load \in {[NoLoad EXCEPT !.file = f, !.fail_at = k] :
                    f \in ClipFiles, k \in -1..MaxClipFrames}
    /\ load.fail_at <= Len(load.file)
    /\ pixel = 0
    /\ bcall = NoBlend
    /\ adv = NoAdvance
    /\ ov = NoOverlayBgra
    /\ shown = Shown
    /\ lost = 0
    /\ pushed = <<>>

SpecLoad == InitLoad /\ [][NextLoad]_vars

\* one pixel of the frame under any sequence of overlay pixels drawn over it
InitBlend ==
    /\ buf = NewGestureBuffer
    /\ call = NoCall
    /\ gap_start = None
    /\ frames_in = 0
    /\ cap_pos = 0
    /\ cap_opened = TRUE
    /\ r_pc = "read"
    /\ r_frame = <<>>
    /\ raw_q = <<>>
    /\ p_pc = "get"
    /\ p_frame = <<>>
    /\ out_q = <<>>
    /\ w_pc = "get"
    /\ batch = <<>>
    /\ stream = <<>>
    /\ enc = "running"
    /\ m_pc = "join_writer"
    /\ released = FALSE
    /\ stdin_closed = FALSE
    /\ failed = {}
    /\ forwarded = <<>>
    /\ stops = [raw |-> 0, out |-> 0]
    /\ anim = <<>>
    /\ player = NewPlayer
    /\ pcall = [op |-> "init", active |-> FALSE, before |-> NewPlayer, ret |-> 0]
    /\ fade_run = -1
    /\ anims = [name \in Labels |-> <<>>]
    /\ players = [name \in Labels |-> NewPlayer]
    /\ curr = <<>>
    /\ ocall = NoOverlayCall
    /\ returncode = <<>>
    /\ outcome = "running"
    /\ detector = [scale_init |-> FALSE]
    /\ det = NoDetCall
    /\ heap = [addr \in Addrs |-> 0]
    /\ resize_cache = [key \in Addrs \X Sizes |-> NoEntry]
    /\ jobs = [j \in Jobs |-> IdleJob]
    /\ last_get = [job |-> 0, image |-> 0, writer |-> 0]
    /\ skip_counter = 0
    /\ last_raw_g = None
    /\ piter = NoIter
    /\ quiet = [frames |-> 0, classified |-> 0, forwarded |-> 0]
    /\ load = NoLoad
    /\ pixel \in Colors
    /\ bcall = NoBlend
    /\ adv = NoAdvance
    /\ ov = NoOverlayBgra
    /\ shown = Shown
    /\ lost = 0
    /\ pushed = <<>>

SpecBlend == InitBlend /\ [][NextBlend]_vars

\* a PLAYING player of any clip with frames of AdvDurations under update calls
InitAdvance ==
    /\ buf = NewGestureBuffer
    /\ call = NoCall
    /\ gap_start = None
    /\ frames_in = 0
    /\ cap_pos = 0
    /\ cap_opened = TRUE
    /\ r_pc = "read"
    /\ r_frame = <<>>
    /\ raw_q = <<>>
    /\ p_pc = "get"
    /\ p_frame = <<>>
    /\ out_q = <<>>
    /\ w_pc = "get"
    /\ batch = <<>>
    /\ stream = <<>>
    /\ enc = "running"
    /\ m_pc = "join_writer"
    /\ released = FALSE
    /\ stdin_closed = FALSE
    /\ failed = {}
    /\ forwarded = <<>>
    /\ stops = [raw |-> 0, out |-> 0]
    /\ anim = <<>>
    /\ player = NewPlayer
    /\ pcall = [op |-> "init", active |-> FALSE, before |-> NewPlayer, ret |-> 0]
    /\ fade_run = -1
    /\ anims = [name \in Labels |-> <<>>]
    /\ players = [name \in Labels |-> NewPlayer]
    /\ curr = <<>>
    /\ ocall = NoOverlayCall
    /\ returncode = <<>>
    /\ outcome = "running"
    /\ detector = [scale_init |-> FALSE]
    /\ det = NoDetCall
    /\ heap = [addr \in Addrs |-> 0]
    /\ resize_cache = [key \in Addrs \X Sizes |-> NoEntry]
    /\ jobs = [j \in Jobs |-> IdleJob]
    /\ last_get = [job |-> 0, image |-> 0, writer |-> 0]
    /\ skip_counter = 0
    /\ last_raw_g = None
    /\ piter = NoIter
    /\ quiet = [frames |-> 0, classified |-> 0, forwarded |-> 0]
    /\ load = NoLoad
    /\ pixel = 0
    /\ bcall = NoBlend
    /\ adv \in {[NoAdvance EXCEPT !.clip = clip] : clip \in AdvClips}
    /\ ov = NoOverlayBgra
    /\ shown = Shown
    /\ lost = 0
    /\ pushed = <<>>

SpecAdvance == InitAdvance /\ [][NextAdvance]_vars

\* the thread that runs update is scheduled again and again
FairAdvance == SpecAdvance /\ WF_vars(NextAdvance)

\* overlay_bgra called with any centers and sizes on a frame of ClipW x ClipH pixels
InitClip ==
    /\ buf = NewGestureBuffer
    /\ call = NoCall
    /\ gap_start = None
    /\ frames_in = 0
    /\ cap_pos = 0
    /\ cap_opened = TRUE
    /\ r_pc = "read"
    /\ r_frame = <<>>
    /\ raw_q = <<>>
    /\ p_pc = "get"
    /\ p_frame = <<>>
    /\ out_q = <<>>
    /\ w_pc = "get"
    /\ batch = <<>>
    /\ stream = <<>>
    /\ enc = "running"
    /\ m_pc = "join_writer"
    /\ released = FALSE
    /\ stdin_closed = FALSE
    /\ failed = {}
    /\ forwarded = <<>>
    /\ stops = [raw |-> 0, out |-> 0]
    /\ anim = <<>>
    /\ player = NewPlayer
    /\ pcall = [op |-> "init", active |-> FALSE, before |-> NewPlayer, ret |-> 0]
    /\ fade_run = -1
    /\ anims = [name \in Labels |-> <<>>]
    /\ players = [name \in Labels |-> NewPlayer]
    /\ curr = <<>>
    /\ ocall = NoOverlayCall
    /\ returncode = <<>>
    /\ outcome = "running"
    /\ detector = [scale_init |-> FALSE]
    /\ det = NoDetCall
    /\ heap = [addr \in Addrs |-> 0]
    /\ resize_cache = [key \in Addrs \X Sizes |-> NoEntry]
    /\ jobs = [j \in Jobs |-> IdleJob]
    /\ last_get = [job |-> 0, image |-> 0, writer |-> 0]
    /\ skip_counter = 0
    /\ last_raw_g = None
    /\ piter = NoIter
    /\ quiet = [frames |-> 0, classified |-> 0, forwarded |-> 0]
    /\ load = NoLoad
    /\ pixel = 0
    /\ bcall = NoBlend
    /\ adv = NoAdvance
    /\ ov = NoOverlayBgra
    /\ shown = Shown
    /\ lost = 0
    /\ pushed = <<>>

SpecClip == InitClip /\ [][NextClip]_vars

\* the processor of a job whose clips are loaded and in which the user shows
\* both gestures, frame by frame
InitSwitch ==
    /\ buf = NewGestureBuffer
    /\ call = NoCall
    /\ gap_start = None
    /\ frames_in = 0
    /\ cap_pos = 0
    /\ cap_opened = TRUE
    /\ r_pc = "read"
    /\ r_frame = <<>>
    /\ raw_q = <<>>
    /\ p_pc = "get"
    /\ p_frame = <<>>
    /\ out_q = <<>>
    /\ w_pc = "get"
    /\ batch = <<>>
    /\ stream = <<>>
    /\ enc = "running"
    /\ m_pc = "join_writer"
    /\ released = FALSE
    /\ stdin_closed = FALSE
    /\ failed = {}
    /\ forwarded = <<>>
    /\ stops = [raw |-> 0, out |-> 0]
    /\ anim = <<>>
    /\ player = NewPlayer
    /\ pcall = [op |-> "init", active |-> FALSE, before |-> NewPlayer, ret |-> 0]
    /\ fade_run = -1
    /\ anims = [name \in Labels |-> <<40>>]
    /\ players = [name \in Labels |-> NewPlayer]
    /\ curr = <<>>
    /\ ocall = NoOverlayCall
    /\ returncode = <<>>
    /\ outcome = "running"
    /\ detector = [scale_init |-> FALSE]
    /\ det = NoDetCall
    /\ heap = [addr \in Addrs |-> 0]
    /\ resize_cache = [key \in Addrs \X Sizes |-> NoEntry]
    /\ jobs = [j \in Jobs |-> IdleJob]
    /\ last_get = [job |-> 0, image |-> 0, writer |-> 0]
    /\ skip_counter = 0
    /\ last_raw_g = None
    /\ piter = NoIter
    /\ quiet = [frames |-> 0, classified |-> 0, forwarded |-> 0]
    /\ load = NoLoad
    /\ pixel = 0
    /\ bcall = NoBlend
    /\ adv = NoAdvance
    /\ ov = NoOverlayBgra
    /\ shown = Labels
    /\ lost = 0
    /\ pushed = <<>>

SpecSwitch == InitSwitch /\ [][NextProc]_vars

\* the processor of a job whose clips are loaded: the user shows a gesture, which
\* the classifier finds or misses, and at some frame takes the hand away
InitLoss ==
    /\ buf = NewGestureBuffer
    /\ call = NoCall
    /\ gap_start = None
    /\ frames_in = 0
    /\ cap_pos = 0
    /\ cap_opened = TRUE
    /\ r_pc = "read"
    /\ r_frame = <<>>
    /\ raw_q = <<>>
    /\ p_pc = "get"
    /\ p_frame = <<>>
    /\ out_q = <<>>
    /\ w_pc = "get"
    /\ batch = <<>>
    /\ stream = <<>>
    /\ enc = "running"
    /\ m_pc = "join_writer"
    /\ released = FALSE
    /\ stdin_closed = FALSE
    /\ failed = {}
    /\ forwarded = <<>>
    /\ stops = [raw |-> 0, out |-> 0]
    /\ anim = <<>>
    /\ player = NewPlayer
    /\ pcall = [op |-> "init", active |-> FALSE, before |-> NewPlayer, ret |-> 0]
    /\ fade_run = -1
    /\ anims = [name \in Labels |-> <<40>>]
    /\ players = [name \in Labels |-> NewPlayer]
    /\ curr = <<>>
    /\ ocall = NoOverlayCall
    /\ returncode = <<>>
    /\ outcome = "running"
    /\ detector = [scale_init |-> FALSE]
    /\ det = NoDetCall
    /\ heap = [addr \in Addrs |-> 0]
    /\ resize_cache = [key \in Addrs \X Sizes |-> NoEntry]
    /\ jobs = [j \in Jobs |-> IdleJob]
    /\ last_get = [job |-> 0, image |-> 0, writer |-> 0]
    /\ skip_counter = 0
    /\ last_raw_g = None
    /\ piter = NoIter
    /\ quiet = [frames |-> 0 - 1, classified |-> 0 - 1, forwarded |-> 0 - 1]
    /\ load = NoLoad
    /\ pixel = 0
    /\ bcall = NoBlend
    /\ adv = NoAdvance
    /\ ov = NoOverlayBgra
    /\ shown = Shown
    /\ lost = 0
    /\ pushed = <<>>

SpecLoss == InitLoss /\ [][NextLoss]_vars

----------------------------------------------------------------------------
\* a new GestureBuffer whose caller pushes any sequence over two of the values
\* like, dislike and None
InitLog ==
    /\ buf = NewGestureBuffer
    /\ call = NoCall
    /\ gap_start = None
    /\ frames_in = 0
    /\ cap_pos = 0
    /\ cap_opened = TRUE
    /\ r_pc = "read"
    /\ r_frame = <<>>
    /\ raw_q = <<>>
    /\ p_pc = "get"
    /\ p_frame = <<>>
    /\ out_q = <<>>
    /\ w_pc = "get"
    /\ batch = <<>>
    /\ stream = <<>>
    /\ enc = "running"
    /\ m_pc = "join_writer"
    /\ released = FALSE
    /\ stdin_closed = FALSE
    /\ failed = {}
    /\ forwarded = <<>>
    /\ stops = [raw |-> 0, out |-> 0]
    /\ anim = <<>>
    /\ player = NewPlayer
    /\ pcall = [op |-> "init", active |-> FALSE, before |-> NewPlayer, ret |-> 0]
    /\ fade_run = -1
    /\ anims = [name \in Labels |-> <<>>]
    /\ players = [name \in Labels |-> NewPlayer]
    /\ curr = <<>>
    /\ ocall = NoOverlayCall
    /\ returncode = <<>>
    /\ outcome = "running"
    /\ detector = [scale_init |-> FALSE]
    /\ det = NoDetCall
    /\ heap = [addr \in Addrs |-> 0]
    /\ resize_cache = [key \in Addrs \X Sizes |-> NoEntry]
    /\ jobs = [j \in Jobs |-> IdleJob]
    /\ last_get = [job |-> 0, image |-> 0, writer |-> 0]
    /\ skip_counter = 0
    /\ last_raw_g = None
    /\ piter = NoIter
    /\ quiet = [frames |-> 0, classified |-> 0, forwarded |-> 0]
    /\ load = NoLoad
    /\ pixel = 0
    /\ bcall = NoBlend
    /\ adv = NoAdvance
    /\ ov = NoOverlayBgra
    /\ shown \in {v \in SUBSET (Labels \cup {None}) : Cardinality(v) = 2}
    /\ lost = 0
    /\ pushed = <<>>

SpecLog == InitLog /\ [][NextLog]_vars

(* Claims about GestureBuffer, checked under SpecBuf *)

\* the smallest count that reaches GESTURE_CONFIRM_RATIO in a full window
ReachesRatio(c) ==
    c * GESTURE_CONFIRM_RATIO[2] >= GESTURE_CONFIRM_RATIO[1] * GESTURE_CONFIRM_FRAMES

\* C1: after any push at which the window holds GESTURE_CONFIRM_FRAMES labels and
\* a non-null label L fills at least GESTURE_CONFIRM_RATIO of it (6 of 10),
\* confirmed is L and push returned L.
C1_ConfirmOnRatio ==
    \A L \in Labels :
        (/\ call.op = "push"
         /\ Len(buf.buf) = GESTURE_CONFIRM_FRAMES
         /\ ReachesRatio(Count(buf.buf, L)))
        => (buf.confirmed = L /\ call.ret = L)

\* a full window with exactly six "like" and four "dislike", confirmed "like"
C1_Witness ==
    /\ call.op = "push"
    /\ Len(buf.buf) = GESTURE_CONFIRM_FRAMES
    /\ Count(buf.buf, "like") = 6
    /\ Count(buf.buf, "dislike") = 4
    /\ buf.confirmed = "like"
    /\ call.ret = "like"

\* C2: while the window is not full (the first GESTURE_CONFIRM_FRAMES - 1 pushes
\* on a fresh buffer) confirmed is None whatever was pushed, and ten "like"
\* in a row confirm "like".
C2_NotBeforeFull ==
    /\ Len(buf.buf) < GESTURE_CONFIRM_FRAMES
          => (buf.confirmed = None /\ call.ret = None /\ ~buf.skip_rotation)
    /\ buf.buf = [i \in 1..GESTURE_CONFIRM_FRAMES |-> "like"]
          => buf.confirmed = "like"

\* nine pushes of "like" and still nothing confirmed
C2_Witness ==
    /\ buf.buf = [i \in 1..(GESTURE_CONFIRM_FRAMES - 1) |-> "like"]
    /\ call.ret = None
    /\ buf.confirmed = None

\* C3: a null push that leaves the run of consecutive null pushes shorter than
\* GESTURE_CLEAR_FRAMES leaves confirmed = L as it was (neither cleared nor
\* switched); so when such a run starts in a state with confirmed = L, confirmed
\* is still L after each of its first GESTURE_CLEAR_FRAMES - 1 pushes.
C3_GapKeepsConfirmed ==
    /\ []((/\ call.op = "push"
           /\ call.raw = None
           /\ gap_start # None
           /\ buf.no_hand_streak < GESTURE_CLEAR_FRAMES)
          => (buf.confirmed = gap_start /\ call.ret = gap_start /\ buf.skip_rotation))
    /\ [][(/\ buf.confirmed # None
           /\ call'.raw = None
           /\ buf'.no_hand_streak < GESTURE_CLEAR_FRAMES)
          => (buf'.confirmed = buf.confirmed /\ call'.ret = buf.confirmed
              /\ buf'.skip_rotation)]_vars

\* five null pushes after "like" was confirmed: still "like"
C3_Witness ==
    /\ call.raw = None
    /\ gap_start = "like"
    /\ buf.no_hand_streak = GESTURE_CLEAR_FRAMES - 1
    /\ buf.confirmed = "like"

\* C4: the GESTURE_CLEAR_FRAMES-th consecutive null push leaves confirmed None and
\* skip_rotation False, whatever the window held before the gap.
C4_ClearOnSixth ==
    (/\ call.op = "push"
     /\ call.raw = None
     /\ buf.no_hand_streak = GESTURE_CLEAR_FRAMES)
    => (buf.confirmed = None /\ call.ret = None /\ ~buf.skip_rotation)

\* the gap started with a confirmed gesture, whose window held four other
\* labels, and its sixth null push cleared it
C4_Witness ==
    /\ call.raw = None
    /\ gap_start = "like"
    /\ buf.no_hand_streak = GESTURE_CLEAR_FRAMES
    /\ Count(buf.buf, "like") + Count(buf.buf, "dislike") = 4
    /\ buf.confirmed = None
    /\ ~buf.skip_rotation

\* C19: a push makes confirmed the label that reaches GESTURE_CONFIRM_RATIO of a
\* full window, if there is one; otherwise it makes confirmed None (and
\* skip_rotation false) if the streak of null pushes is at least
\* GESTURE_CLEAR_FRAMES; every other push leaves confirmed and skip_rotation
\* as they were.
C19_Hysteresis ==
    [][LET w        == buf'.buf
           Wins(L)  == Len(w) = GESTURE_CONFIRM_FRAMES /\ ReachesRatio(Count(w, L))
           cleared  == buf'.no_hand_streak >= GESTURE_CLEAR_FRAMES
       IN  /\ \A L \in Labels : Wins(L) => (buf'.confirmed = L /\ buf'.skip_rotation)
           /\ ((\A L \in Labels : ~Wins(L)) /\ cleared)
                  => (buf'.confirmed = None /\ ~buf'.skip_rotation)
           /\ ((\A L \in Labels : ~Wins(L)) /\ ~cleared)
                  => (buf'.confirmed = buf.confirmed
                      /\ buf'.skip_rotation = buf.skip_rotation)]_vars

\* a push of the other label into a full window in which no label reaches the
\* ratio any more: confirmed stays
C19_Witness ==
    /\ call.op = "push"
    /\ call.raw = "dislike"
    /\ call.ret = "like"
    /\ buf.confirmed = "like"
    /\ buf.skip_rotation
    /\ Count(buf.buf, "like") = 5
    /\ Count(buf.buf, "dislike") = 5

----------------------------------------------------------------------------
(* Claims about the pipeline, checked under SpecPipe and FairPipe *)

\* the frames of a queue, without the end marker
FramesOf(q) == SelectSeq(q, LAMBDA x : x # STOP)

\* the frames cap.read() has returned, in the order read
ReadSeq == [i \in 1..cap_pos |-> i]

\* every frame that was read and is not dropped, from the encoder's end to the decoder's
InFlight == stream \o batch \o FramesOf(out_q) \o p_frame \o FramesOf(raw_q) \o r_frame

\* number of frames held by the stages and the queues
Alive ==
    Len(r_frame) + Len(FramesOf(raw_q)) + Len(p_frame) + Len(FramesOf(out_q))
        + (IF w_pc = "done" THEN 0 ELSE Len(batch))

\* the end marker is the last item of the queue it is in
MarkerLast(q) == \A i \in 1..Len(q) : q[i] = STOP => i = Len(q)

\* C5: while no stage has failed, the frames written, pending and queued are, in
\* this order, exactly the frames read (none dropped, duplicated or reordered),
\* and when the writer has ended the encoder stream is exactly the frames read.
C5_OrderAndCompleteness ==
    failed = {} =>
        IF w_pc = "done" THEN stream = ReadSeq /\ r_pc = "done" /\ p_pc = "done"
        ELSE InFlight = ReadSeq

\* a failure-free job of more than one batch has ended: a full batch and a
\* partial batch were written
C5_Witness ==
    /\ failed = {}
    /\ w_pc = "done"
    /\ Len(stream) > WRITE_BATCH
    /\ stream = ReadSeq

\* C6: each queue holds at most Maxsize items, a producer at a put on a full
\* queue stays there (and the queue does not grow) until an item is removed, and
\* at most 2 * Maxsize + 2 + WRITE_BATCH frames are alive.
C6_Backpressure ==
    /\ [](/\ Len(raw_q) <= Maxsize
          /\ Len(out_q) <= Maxsize
          /\ Alive <= 2 * Maxsize + 2 + WRITE_BATCH)
    /\ [][/\ (r_pc \in {"put", "stop"} /\ Len(raw_q) >= Maxsize)
                => (r_pc' = r_pc /\ Len(raw_q') <= Len(raw_q))
          /\ (p_pc \in {"put", "stop"} /\ Len(out_q) >= Maxsize)
                => (p_pc' = p_pc /\ Len(out_q') <= Len(out_q))]_vars

\* both queues are full and both producers wait with a frame in hand
C6_Witness ==
    /\ Len(raw_q) = Maxsize
    /\ r_pc = "put"
    /\ Len(out_q) = Maxsize
    /\ p_pc = "put"
    /\ Alive = 2 * Maxsize + 2 + Len(batch)

\* a failure-free job has ended: one end marker per queue, all frames read were
\* forwarded and written, the threads have ended and process_video has returned
Finished ==
    /\ m_pc = "returned"
    /\ r_pc = "done"
    /\ p_pc = "done"
    /\ w_pc = "done"
    /\ enc = "exited"
    /\ stops = [raw |-> 1, out |-> 1]
    /\ forwarded = ReadSeq
    /\ stream = ReadSeq

\* C7: under fair scheduling a job in which no stage fails ends (the input being
\* exhausted or a read having failed): each queue got exactly one end marker, after
\* the last frame, the three threads have ended and process_video has returned;
\* until then some thread can always take a step.
C7_Termination ==
    /\ <>(failed # {} \/ Finished)
    /\ [](failed = {} => (MarkerLast(raw_q) /\ MarkerLast(out_q)
                           /\ stops.raw <= 1 /\ stops.out <= 1))
    /\ []((failed = {} /\ ~Finished)
            => ENABLED (ReaderStep \/ ProcStep \/ WriterStep \/ MainStep \/ EncoderExit))

\* a job whose input ended by a failed read, before the last frame, has returned
C7_Witness ==
    /\ Finished
    /\ failed = {}
    /\ cap_pos > WRITE_BATCH
    /\ cap_pos < frames_in

\* C8: a reader or processor that has ended has put its end marker, also when
\* it ended by an exception; and after such an exception the stages downstream
\* end, the writer having written every frame that was forwarded (unless the
\* encoder or the writer fails as well).
C8_MarkerOnFailure ==
    /\ [](r_pc = "done" => stops.raw = 1)
    /\ [](p_pc = "done" => stops.out = 1)
    /\ (failed \cap {"reader", "processor"} # {})
          ~> (\/ failed \cap {"writer", "encoder"} # {}
              \/ (p_pc = "done" /\ w_pc = "done" /\ stream = forwarded))

\* the processor raised after forwarding frames; the writer wrote them and ended
C8_Witness ==
    /\ failed = {"processor"}
    /\ stops.out = 1
    /\ w_pc = "done"
    /\ Len(forwarded) > 0
    /\ Len(forwarded) < cap_pos
    /\ stream = forwarded

----------------------------------------------------------------------------
(* Claims about AnimPlayer, checked under SpecPlayer *)

\* C9: after start_fade on a Playing player the i-th following update(False)
\* returns alpha = 1 - i/ANIM_FADE_FRAMES; the player is Fading for
\* i < ANIM_FADE_FRAMES and Idle with alpha 0 at i = ANIM_FADE_FRAMES.
C9_FadeRamp ==
    (fade_run >= 1 /\ fade_run <= ANIM_FADE_FRAMES) =>
        /\ pcall.op = "update"
        /\ pcall.ret = FullAlpha - fade_run
        /\ player.alpha = FullAlpha - fade_run
        /\ fade_run < ANIM_FADE_FRAMES => (player.state = "FADING" /\ player.alpha > 0)
        /\ fade_run = ANIM_FADE_FRAMES => (player.state = "IDLE" /\ player.alpha = 0)

\* the last call of the ramp: the player has just become Idle
C9_Witness ==
    /\ anim # <<>>
    /\ fade_run = ANIM_FADE_FRAMES
    /\ pcall.ret = 0
    /\ player.state = "IDLE"

----------------------------------------------------------------------------
(* Claims about AnimOverlay, checked under SpecOverlay *)

\* C10: when update_and_draw is called with raw_gesture # L while player L is
\* Playing, player L is Fading, with alpha below 1, when the call returns,
\* whatever confirmed_gesture is.
C10_FadeOnRawLoss ==
    [][\A L \in Labels :
          (players[L].state = "PLAYING" /\ ocall'.raw # L)
              => (players'[L].state = "FADING" /\ players'[L].alpha < FullAlpha)]_vars

----------------------------------------------------------------------------
(* Claims about what process_video reports, checked under SpecPipe *)

\* C11: when the encoder process has exited with a non-zero status,
\* process_video does not return normally: it reports the failure by raising.
C11_EncoderFailureReported ==
    (outcome # "running" /\ returncode # <<0>>) => outcome = "raised"

----------------------------------------------------------------------------
(* Claims about GestureDetector, checked under SpecDet *)

\* the provider of a call, with every error replaced by "no gesture"
Quiet(probe) == [angle \in DOMAIN probe |-> IF probe[angle] = "error" THEN None ELSE probe[angle]]

\* C12: an error of the landmark provider at one angle counts as no detection
\* at that angle: process_frame raises nothing and returns what it returns
\* for the provider that finds no gesture where this one fails.
C12_ErrorIsolated ==
    det.op = "process_frame" =>
        /\ ~det.raised
        /\ det.ret = ProcessFrameOf(Quiet(det.probe), det.hand, det.skip_rotation).ret

\* C16: for each of the four angles _unrotate maps the image of a point under
\* _rotate back to the point, so a gesture that process_frame finds, at any
\* angle, is returned at the hand's position in the original frame, which lies
\* inside the unit square.
C16_RotationRoundTrip ==
    /\ \A angle \in {0, 90, 180, 270} :
           /\ Unrotate(Rotate(det.hand, angle), angle) = det.hand
           /\ Unrotate(Rotate(det.hand, angle), angle) \in Grid
    /\ det.ret.g # None => (det.ret.pos = det.hand /\ det.ret.pos \in Grid)

\* a gesture found at 270 degrees only, for a hand off the diagonals
C16_Witness ==
    /\ det.op = "process_frame"
    /\ det.tried = <<0, 90, 180, 270>>
    /\ det.ret.g = "like"
    /\ det.hand = <<1, 3>>
    /\ det.ret.pos = <<1, 3>>

----------------------------------------------------------------------------
(* Claims about concurrent and successive jobs, checked under SpecJobs *)

\* C13: no state written by one job is read by another: the resized image a
\* job gets from the resize cache was stored by that job and is the image of
\* its own clip.
C13_JobIsolation ==
    last_get.job # 0 => (last_get.writer = last_get.job /\ last_get.image = last_get.job)

----------------------------------------------------------------------------
(* Claims about the processor's loop, checked under SpecProc *)

\* C14: a player whose clip is empty is Idle after every iteration of the job;
\* every update on it returns 0 and leaves it as it is, start_fade leaves it as
\* it is, its label is never drawn, and every iteration puts its frame on out_q.
C14_EmptyClipIdle ==
    /\ \A name \in Labels :
          anims[name] = <<>> =>
              /\ players[name].state = "IDLE"
              /\ \A active \in BOOLEAN :
                    /\ Update(anims[name], players[name], active).ret = 0
                    /\ Update(anims[name], players[name], active).player = players[name]
              /\ StartFade(players[name]) = players[name]
              /\ name \notin ocall.drawn
    /\ piter.op = "iter" => piter.put

\* the gesture of the empty clip is confirmed and its raw signal is there: the
\* player was updated with active = True, and the frame was forwarded
C14_Witness ==
    /\ anims["like"] = <<>>
    /\ ocall.confirmed = "like"
    /\ ocall.raw = "like"
    /\ players["like"].state = "IDLE"
    /\ piter.put

\* C15: as long as no classification of the job has returned a gesture, every
\* frame taken was classified and forwarded, confirmed is None (in the buffer
\* and as passed to the overlay), every player is Idle, the position tracker is
\* undefined and the overlay has drawn nothing.
C15_ZeroDetection ==
    quiet.frames >= 0 =>
        /\ quiet.classified = quiet.frames
        /\ quiet.forwarded = quiet.frames
        /\ buf.no_hand_streak = quiet.frames
        /\ buf.confirmed = None
        /\ ocall.confirmed = None
        /\ \A name \in Labels : players[name].state = "IDLE"
        /\ curr = <<>>
        /\ ocall.drawn = {}

\* a job of MaxStreak frames without any gesture, with clips that loaded
C15_Witness ==
    /\ quiet.frames = MaxStreak
    /\ quiet.forwarded = MaxStreak
    /\ \A name \in Labels : anims[name] # <<>>

\* C20: skip_counter is 0, 1 or 2, it is 0 while confirmed is None, and it is
\* the number of frames skipped since the last classified frame; an iteration
\* classifies its frame if confirmed is None, and if a gesture is confirmed it
\* classifies exactly when the two frames before it were skipped, so the frame
\* after a confirmation is skipped.
C20_SamplingSchedule ==
    /\ [](/\ skip_counter \in 0..2
          /\ buf.confirmed = None => skip_counter = 0
          /\ piter.skips = skip_counter)
    /\ [][/\ buf.confirmed = None => piter'.should_detect
          /\ buf.confirmed # None =>
                (piter'.should_detect <=> piter.skips = DETECTION_SKIP_AFTER_CONFIRM)
          /\ (buf.confirmed = None /\ buf'.confirmed # None) =>
                (skip_counter' = 0 /\ ShouldSkip(buf'.confirmed, skip_counter'))]_vars

\* a frame classified while the gesture is confirmed (it was confirmed at the
\* last push of a label): it followed two skipped frames and pushed None
C20_Witness ==
    /\ piter.should_detect
    /\ gap_start = "like"
    /\ buf.confirmed = "like"
    /\ call.raw = None
    /\ buf.no_hand_streak = 1
    /\ skip_counter = 0

----------------------------------------------------------------------------
(* Claims about WebpAnimation.load, checked under SpecLoad *)

\* C18: when load has returned after a failure, at Image.open or at any frame,
\* the clip it returned is empty (no error leaves load: every failure ends in
\* a return).
C18_LoadFailureEmpty ==
    (load.pc = "returned" /\ load.failed) => load.frames = <<>>

----------------------------------------------------------------------------
(* Claims about the blend of overlay_bgra, checked under SpecBlend *)

\* C17: after overlay_bgra has drawn an overlay pixel of alpha 0 over a pixel,
\* the pixel has the value it had; after it has drawn one of alpha 255 with
\* alpha_mul = 1.0, the pixel has the overlay pixel's color.
C17_BlendEndpoints ==
    bcall.op = "overlay_bgra" =>
        /\ bcall.a = 0 => pixel = bcall.dst
        /\ (bcall.a = 255 /\ bcall.alpha_mul = FullAlpha) => pixel = bcall.src

\* an opaque white overlay pixel over a pixel that a blend had left dark
C17_Witness ==
    /\ bcall.op = "overlay_bgra"
    /\ bcall.a = 255
    /\ bcall.alpha_mul = FullAlpha
    /\ bcall.dst = 49
    /\ bcall.src = 255
    /\ pixel = 255

----------------------------------------------------------------------------
(* More claims about the processor's loop, checked under SpecProc *)

\* C21: every iteration of the processor's loop, also one that skips the
\* classification, calls buf.push exactly once.
C21_OnePushPerFrame ==
    piter.op = "iter" => piter.pushes = 1

----------------------------------------------------------------------------
(* More claims about the pipeline, checked under SpecPipe *)

\* the frames out_q.get() has returned to the writer, in the order returned
Dequeued == SubSeq(forwarded, 1, Len(forwarded) - Len(FramesOf(out_q)))

\* the sink's batching, as long as Unless does not hold
SinkBatching(Unless) ==
    Unless \/
        /\ IF w_pc = "done" THEN stream = Dequeued ELSE stream \o batch = Dequeued
        /\ w_pc # "done" => /\ Len(batch) < WRITE_BATCH
                            /\ Len(stream) % WRITE_BATCH = 0

ProcClassifying ==
    /\ p_pc = "get"
    /\ raw_q # <<>>
    /\ QueueGet(raw_q).item # STOP

\* the reader's next step is cap.read() on the opened decoder
SourceReading ==
    /\ r_pc = "read"
    /\ cap_opened
    /\ cap_pos < frames_in

\* C24: when process_video is at cap.release(); detector.close(), the processor
\* has no frame to classify and the reader no frame to read (two steps that can
\* be taken in the same state run concurrently), and no frame is classified once
\* the classifier is closed.
C24_ThreadConfinement ==
    /\ m_pc = "release" => ~ProcClassifying /\ ~SourceReading
    /\ released => ~ProcClassifying

\* the frames the writer holds: the batch, and what it has written (the finally
\* clause writes the batch without clearing it)
SinkHeld ==
    IF w_pc = "done" /\ "writer" \notin failed THEN stream ELSE stream \o batch

\* every place that holds a frame, from the encoder's end to the decoder's
Held == SinkHeld \o FramesOf(out_q) \o p_frame \o FramesOf(raw_q) \o r_frame

\* C25: a frame that was read is held by at most one of the reader's local
\* variable, a slot of raw_q, the processor's local variable, a slot of out_q and
\* the writer, and by exactly one unless the processor raised on it; a thread's
\* local variable holds a frame only between its get (or read) and its put, so the
\* frame the processor draws on is in no queue and in no other thread's hands.
C25_ExclusiveOwnership ==
    /\ \A i, j \in 1..Len(Held) : Held[i] = Held[j] => i = j
    /\ \A i \in 1..Len(Held) : Held[i] \in 1..cap_pos
    /\ "processor" \notin failed => \A f \in 1..cap_pos : \E i \in 1..Len(Held) : Held[i] = f
    /\ Len(r_frame) = (IF r_pc = "put" THEN 1 ELSE 0)
    /\ Len(p_frame) = (IF p_pc = "put" THEN 1 ELSE 0)

\* each of the five places holds a frame at the same time
C25_Witness ==
    /\ r_frame # <<>>
    /\ FramesOf(raw_q) # <<>>
    /\ p_frame # <<>>
    /\ FramesOf(out_q) # <<>>
    /\ batch # <<>>
    /\ stream # <<>>
    /\ w_pc = "get"

----------------------------------------------------------------------------
(* More claims about AnimOverlay, checked under SpecOverlay *)

\* some player is not Idle
AnyActive == \E name \in Labels : IsActive(players[name])

\* C26: after every update_and_draw call the smoothed center is defined if and
\* only if some player is not Idle (so the call in which the last active player
\* becomes Idle resets it), and a call that finds the center undefined and leaves
\* it defined sets it to the call's target (int(nx * w), int(ny * h)).
C26_CenterDefined ==
    /\ [](ocall.op = "update_and_draw" => (curr # <<>> <=> AnyActive))
    /\ [][(curr = <<>> /\ curr' # <<>>)
             => curr' = <<TargetOf(ocall'.pos[1]), TargetOf(ocall'.pos[2])>>]_vars

\* the call in which the last active player ends its fade: the players are Idle,
\* one of them with alpha 0, and the center is undefined
C26_Witness ==
    /\ ocall.op = "update_and_draw"
    /\ ocall.pos = <<2, 2>>
    /\ curr = <<>>
    /\ ~AnyActive
    /\ \E name \in Labels : players[name].alpha = 0

----------------------------------------------------------------------------
(* More claims about AnimPlayer, checked under SpecPlayer *)

\* a player at the start of its clip, Playing, with full alpha
Restarted ==
    [state |-> "PLAYING", idx |-> 0, ms_accum |-> 0, fade_cnt |-> 0, alpha |-> FullAlpha]

\* C27: update(active=True) on an Idle player with a non-empty clip leaves the
\* player as one advance after frame 0 with no time accumulated, Playing, with
\* fade counter 0 and alpha 1 (which it returns), whatever the Idle player held.
C27_IdleToPlaying ==
    (/\ pcall.op = "update"
     /\ pcall.active
     /\ pcall.before.state = "IDLE"
     /\ anim # <<>>)
        => /\ player = Advance(anim, Restarted)
           /\ pcall.ret = FullAlpha

\* a player that became Idle at frame 1 with alpha 0 has been activated again
C27_Witness ==
    /\ pcall.op = "update"
    /\ pcall.active
    /\ pcall.before.state = "IDLE"
    /\ pcall.before.idx = 1
    /\ pcall.before.alpha = 0
    /\ player.state = "PLAYING"

----------------------------------------------------------------------------
(* More claims about GestureDetector, checked under SpecDet *)

\* the angles among the first n of 0, 90, 180, 270 at which the provider finds
\* a gesture
Found(probe, n) ==
    {i \in 1..n : probe[<<0, 90, 180, 270>>[i]] \notin {None, "error"}}

\* C28: process_frame queries the provider at 0, 90, 180, 270 in this order and
\* stops at the first angle with a gesture, which gives the result (no detection
\* if all four angles give none); the call with the other value of skip_rotation
\* queries the same angles and returns the same (also when the provider raises).
C28_RotationSearch ==
    det.op = "process_frame" =>
        LET n     == Len(det.tried)
            other == ProcessFrameOf(det.probe, det.hand, ~det.skip_rotation)
        IN  /\ n \in 1..4
            /\ det.tried = SubSeq(<<0, 90, 180, 270>>, 1, n)
            /\ Found(det.probe, n - 1) = {}
            /\ ~det.raised =>
                  IF Found(det.probe, n) = {}
                  THEN n = 4 /\ det.ret = NoDetection
                  ELSE det.ret = DetectAtAngle(det.probe, det.hand, det.tried[n]).ret
                          /\ det.ret.g = det.probe[det.tried[n]]
            /\ other.tried = det.tried
            /\ other.raised = det.raised
            /\ other.ret = det.ret

\* a call with skip_rotation that finds the gesture at the third angle
C28_Witness ==
    /\ det.op = "process_frame"
    /\ det.skip_rotation
    /\ det.tried = <<0, 90, 180>>
    /\ det.probe[270] = "like"
    /\ det.ret.g = "like"
    /\ ~det.raised

----------------------------------------------------------------------------
(* More claims about the resize cache, checked under SpecJobs *)

\* the keys the dict holds
CacheKeys == {key \in DOMAIN resize_cache : resize_cache[key] # NoEntry}

\* the clip frames of the jobs that run (one gesture with a one-frame clip a job)
LiveFrames == {addr \in Addrs : heap[addr] # 0}

\* C29: _resize_cache.get returns the resized image of the frame passed in the
\* call (the frame of job j's clip holds the image j), never that of another
\* clip's frame, and the dict holds no more entries than there are frames in the
\* clips in use.
C29_PureMemoization ==
    /\ last_get.job # 0 => last_get.image = last_get.job
    /\ Cardinality(CacheKeys) <= Cardinality(LiveFrames)

----------------------------------------------------------------------------
(* Claims about AnimPlayer._advance, checked under FairAdvance *)

\* C30: every update call on a Playing player returns, for every non-empty clip
\* with durations of 0 ms or more, and the frame index stays in
\* [0, number of frames).
C30_AdvanceTerminates ==
    /\ [](adv.idx \in 0..(Len(adv.clip) - 1))
    /\ [](adv.pc = "loop" => <>(adv.pc = "return"))

----------------------------------------------------------------------------
(* Claims about overlay_bgra's clipping, checked under SpecClip *)

\* the square of side s the overlay covers, cut to the frame
Covered ==
    {q \in FramePixels :
        /\ q[1] >= ov.cx - (ov.s \div 2) /\ q[1] < ov.cx - (ov.s \div 2) + ov.s
        /\ q[2] >= ov.cy - (ov.s \div 2) /\ q[2] < ov.cy - (ov.s \div 2) + ov.s}

\* C31: for every center the pixels overlay_bgra writes are those of the frame
\* inside the overlay's square (none if the square misses the frame: the call
\* returns at once); the source and destination slices have the same shape and
\* lie in the s x s overlay and in the frame.
C31_Clipping ==
    ov.op = "overlay_bgra" =>
        /\ ov.written = Covered
        /\ ov.returned <=> Covered = {}
        /\ \A k \in 1..2 : Cardinality(ov.src[k]) = Cardinality(ov.dst[k])
        /\ ov.src[1] \subseteq 0..(ov.s - 1) /\ ov.src[2] \subseteq 0..(ov.s - 1)
        /\ ov.dst[1] \subseteq 0..(ClipW - 1) /\ ov.dst[2] \subseteq 0..(ClipH - 1)
        /\ ~ov.returned =>
              \A k \in 1..2 : \A i \in ov.dst[k] :
                  (i - (<<ov.cx, ov.cy>>[k] - (ov.s \div 2))) \in ov.src[k]

\* an overlay of side 3 centered left of the frame's first column: one column of
\* the overlay lies in the frame
C31_Witness ==
    /\ ov.op = "overlay_bgra"
    /\ ov.cx = 0 - 1
    /\ ov.s = 3
    /\ ov.src[1] = {2}
    /\ ov.dst[1] = {0}
    /\ ~ov.returned

----------------------------------------------------------------------------
(* More claims about AnimPlayer's alpha, checked under SpecPlayer *)

\* C32: after any calls of update and start_fade alpha lies in [0, 1] and is 1
\* in state Playing; an update that leaves the player Fading leaves and returns
\* alpha = 1 - fade_cnt/ANIM_FADE_FRAMES with 1 <= fade_cnt < ANIM_FADE_FRAMES,
\* so 0 < alpha < 1; update(False) on an Idle player returns 0.
C32_AlphaInvariants ==
    /\ player.alpha \in 0..FullAlpha
    /\ player.state = "PLAYING" => player.alpha = FullAlpha
    /\ (pcall.op = "update" /\ player.state = "FADING") =>
          /\ player.fade_cnt \in 1..(ANIM_FADE_FRAMES - 1)
          /\ player.alpha = FullAlpha - player.fade_cnt
          /\ player.alpha > 0 /\ player.alpha < FullAlpha
          /\ pcall.ret = player.alpha
    /\ (pcall.op = "update" /\ pcall.before.state = "IDLE" /\ ~pcall.active) =>
          /\ pcall.ret = 0
          /\ player.state = "IDLE"

\* the last update that leaves the player Fading
C32_Witness ==
    /\ pcall.op = "update"
    /\ player.state = "FADING"
    /\ player.fade_cnt = ANIM_FADE_FRAMES - 1
    /\ player.alpha = 1
    /\ pcall.ret = 1

----------------------------------------------------------------------------
(* Claims about the processor's loop with two gestures, checked under SpecSwitch *)

\* C33: after every iteration of the processor's loop (push, update_and_draw) a
\* player with a non-empty clip is Playing if and only if its label is the
\* confirmed gesture; so at most one player is Playing and the others are Fading
\* or Idle.
C33_PlayingIffConfirmed ==
    piter.op = "iter" =>
        /\ ocall.confirmed = buf.confirmed
        /\ \A name \in Labels :
              anims[name] # <<>> =>
                  (players[name].state = "PLAYING" <=> buf.confirmed = name)
        /\ Cardinality({name \in Labels : players[name].state = "PLAYING"}) <= 1
        /\ \A name \in Labels :
              name # buf.confirmed => players[name].state \in {"FADING", "IDLE"}

\* the confirmed gesture has gone from like to dislike: the player of dislike is
\* Playing while that of like fades
C33_Witness ==
    /\ piter.op = "iter"
    /\ buf.confirmed = "dislike"
    /\ players["dislike"].state = "PLAYING"
    /\ players["like"].state = "FADING"
    /\ players["like"].fade_cnt = 3

----------------------------------------------------------------------------
(* Claims about the loss of the gesture, checked under SpecLoss *)

\* (DETECTION_SKIP_AFTER_CONFIRM + 1) * GESTURE_CLEAR_FRAMES
ClearWithin == (DETECTION_SKIP_AFTER_CONFIRM + 1) * GESTURE_CLEAR_FRAMES

\* C34: once every classification finds no gesture, confirmed is None from the
\* (skip + 1) * GESTURE_CLEAR_FRAMES-th processed frame on, and from
\* ANIM_FADE_FRAMES frames later on every player is Idle and nothing is drawn.
C34_BoundedResponse ==
    /\ lost >= ClearWithin => buf.confirmed = None /\ ocall.confirmed = None
    /\ lost >= ClearWithin + ANIM_FADE_FRAMES =>
          /\ \A name \in Labels : players[name].state = "IDLE"
          /\ ocall.drawn = {}
          /\ curr = <<>>

\* the latest clearing: the gesture is still confirmed on the frame before the
\* bound
C34_Witness ==
    /\ lost = ClearWithin - 1
    /\ buf.confirmed = "like"
    /\ players["like"].state = "PLAYING"
    /\ "like" \in ocall.drawn

----------------------------------------------------------------------------
(* Claims about a job after a failure, checked under FairPipe *)

\* one stage has failed: the processor has raised, or the writer's write has
\* raised because the encoder has died
SingleFailure == failed \in {{"processor"}, {"writer", "encoder"}}

\* C35: after the writer's write has raised or the processor has raised (and no
\* other stage fails), the reader, the processor and the writer threads all end.
C35_ThreadsEndAfterFailure ==
    SingleFailure ~> (\/ r_pc = "done" /\ p_pc = "done" /\ w_pc = "done"
                      \/ ~SingleFailure)

\* C36: a push made when the window is already full changes confirmed to a
\* label L (from None or from the other label) only if its raw label is L; a
\* push of None or of a different label never makes L the confirmed gesture.
C36_ConfirmOnlyOnOwnPush ==
    [][\A L \in Labels :
           (/\ Len(buf.buf) = GESTURE_CONFIRM_FRAMES
            /\ buf.confirmed # L
            /\ buf'.confirmed = L)
           => call'.raw = L]_vars

\* a full window in which "dislike" has just reached the ratio on a push of
\* "dislike", the four other places holding "like"
C36_Witness ==
    /\ call.op = "push"
    /\ call.raw = "dislike"
    /\ call.ret = "dislike"
    /\ buf.confirmed = "dislike"
    /\ Len(buf.buf) = GESTURE_CONFIRM_FRAMES
    /\ buf.buf[1] = "like"
    /\ Count(buf.buf, "dislike") = 6
    /\ Count(buf.buf, "like") = 4

\* the labels of maximal count in the window w: the candidates among which
\* max(counts, key=...) picks by iteration order
Maxima(w) ==
    LET keys == {w[i] : i \in 1..Len(w)} \ {None}
    IN  {g \in keys : \A h \in keys : Count(w, g) >= Count(w, h)}

\* the result of _get_confirmed on a full window with a label in it, had max
\* picked g among the labels of maximal count
ConfirmedBy(w, g) ==
    IF RatioReached(Count(w, g), Len(w)) THEN g ELSE None

\* C37: whenever the confirmation rule yields a label L, L occurs strictly more
\* often in the window than every other label, and the rule yields the same
\* result whichever label of maximal count is picked.
C37_TieBreakUnobservable ==
    LET w == buf.buf
    IN  /\ \A L \in Labels :
               GetConfirmed(w) = L
               => \A h \in Labels \ {L} : Count(w, L) > Count(w, h)
        /\ WindowFull(w)
           => \A g \in Maxima(w) : ConfirmedBy(w, g) = GetConfirmed(w)

\* the rule has confirmed "like" in a window that also holds four "dislike"
C37_Witness ==
    /\ call.op = "push"
    /\ GetConfirmed(buf.buf) = "like"
    /\ buf.confirmed = "like"
    /\ Count(buf.buf, "like") = 6
    /\ Count(buf.buf, "dislike") = 4

\* a full window in which both labels have the same count
C37_TieWitness ==
    /\ call.op = "push"
    /\ WindowFull(buf.buf)
    /\ Cardinality(Maxima(buf.buf)) = 2

----------------------------------------------------------------------------
(* More claims about AnimPlayer, checked under SpecPlayer *)

\* the player p with only the fade undone: Playing, fade counter 0, alpha 1
Unfaded(p) ==
    [p EXCEPT !.state = "PLAYING", !.fade_cnt = 0, !.alpha = FullAlpha]

\* C38: update(active=True) on a Fading player leaves it Playing with alpha 1
\* (which it returns) and fade counter 0, and the frame index and the
\* accumulated time are those of one advance from where the fading player
\* was: they are not reset.
C38_FadingToPlaying ==
    (/\ pcall.op = "update"
     /\ pcall.active
     /\ pcall.before.state = "FADING")
        => /\ player.state = "PLAYING"
           /\ player.alpha = FullAlpha
           /\ player.fade_cnt = 0
           /\ pcall.ret = FullAlpha
           /\ anim # <<>>
           /\ player = Advance(anim, Unfaded(pcall.before))

\* a player that was fading at frame 1, part of the fade done, has been
\* activated again and plays on at a frame other than frame 0
C38_Witness ==
    /\ pcall.op = "update"
    /\ pcall.active
    /\ pcall.before.state = "FADING"
    /\ pcall.before.idx = 1
    /\ pcall.before.fade_cnt > 0
    /\ pcall.before.alpha < FullAlpha
    /\ player.state = "PLAYING"
    /\ player.idx = 1

----------------------------------------------------------------------------
(* Claims about GestureBuffer on any arguments, checked under SpecLog *)

\* the last k elements of the sequence s
LastOf(s, k) == SubSeq(s, Len(s) - k + 1, Len(s))

\* the number of consecutive None at the end of the sequence s
TrailingNone(s) ==
    LET ks == {k \in 0..Len(s) : \A i \in (Len(s) - k + 1)..Len(s) : s[i] = None}
    IN  CHOOSE k \in ks : \A j \in ks : j <= k

\* C39: after n pushes skip_rotation is True exactly when confirmed is a label,
\* the window is the last min(n, GESTURE_CONFIRM_FRAMES) raw labels in push
\* order, and the streak is the number of None pushes at the end of the
\* sequence.
C39_BufferInvariant ==
    /\ buf.skip_rotation <=> buf.confirmed # None
    /\ Len(buf.buf) <= GESTURE_CONFIRM_FRAMES
    /\ buf.buf = LastOf(pushed, Min(Len(pushed), GESTURE_CONFIRM_FRAMES))
    /\ buf.no_hand_streak = TrailingNone(pushed)

\* more pushes than the window holds, the oldest one evicted being a label, a
\* gesture confirmed and two None at the end
C39_Witness ==
    /\ Len(pushed) > GESTURE_CONFIRM_FRAMES
    /\ pushed[1] = "like"
    /\ buf.buf[1] = None
    /\ buf.confirmed = "like"
    /\ buf.skip_rotation
    /\ buf.no_hand_streak = 2

\* C40: a push stores the supplied position when its raw label is a label and
\* a position is supplied; every other push (None, or no position) leaves
\* last_nx and last_ny as they were.
C40_LastKnownPosition ==
    [][LET supplied == call'.raw # None /\ call'.pos # NoPos
       IN  /\ supplied => <<buf'.last_nx, buf'.last_ny>> = call'.pos
           /\ ~supplied => (buf'.last_nx = buf.last_nx /\ buf'.last_ny = buf.last_ny)]_vars

\* a push of None that came with a position has left the position of an
\* earlier detection in place
C40_Witness ==
    /\ call.op = "push"
    /\ call.raw = None
    /\ call.pos = <<3, 1>>
    /\ buf.last_nx = 1
    /\ buf.last_ny = 3
    /\ buf.no_hand_streak = 3

\* a push of a label without a position has left the position in place
C40_NoPosition ==
    /\ call.op = "push"
    /\ call.raw = "like"
    /\ call.pos = NoPos
    /\ buf.last_nx = 3
    /\ buf.last_ny = 1

============================================================================
